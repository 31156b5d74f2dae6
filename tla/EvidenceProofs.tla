---------------------------- MODULE EvidenceProofs ----------------------------
(* Proofs about the evidence of runs and what rests on it: the deletion of    *)
(* evidence, the follow-up of a finding and the reviews of mutations, for any *)
(* number of runs and any length of a history.                                *)
EXTENDS MCEvidenceRecords, FiniteSetTheorems, WellFoundedInduction, TLAPS

-----------------------------------------------------------------------------
(* The evidence itself.                                                      *)

Rows ==
  [phase : {"absent", "begun", "executed", "recorded", "final"}, begun : Nat, observed : Nat,
   origin : Nat, created : Nat, granted : Nat, clean : BOOLEAN, revoked : BOOLEAN, held : BOOLEAN]

Holds == [active : BOOLEAN, sequence : Nat]

DeletionPlans ==
  [run : Runs, hold : Holds, reason : {"RETENTION_EXPIRED", "EXPLICIT_REMOVAL"},
   granted : Nat, recorded : Nat]

RetentionTypeOK ==
  /\ clock \in Nat /\ generation \in Nat
  /\ run \in [Runs -> Rows]
  /\ hold \in [Runs -> Holds]
  /\ plans \subseteq DeletionPlans
  /\ DOMAIN tombstone \subseteq Runs

\* Rows are written in order, and only evidence that a receipt rests on is deleted.
RetentionInv ==
  /\ DeletionAuthorized
  /\ \A plan \in plans : plan.recorded <= clock
  /\ \A r \in DOMAIN tombstone : Final(r)
  /\ \A r \in Runs : run[r].observed <= clock
  /\ \A r \in Runs : Final(r) =>
       /\ run[r].origin = run[r].granted /\ run[r].granted <= generation
       /\ run[r].observed <= run[r].created /\ run[r].created <= clock

\* What a row that a receipt rests on keeps.
SameReceipt(old, new) ==
  /\ new.phase = "final" /\ new.observed = old.observed /\ new.origin = old.origin
  /\ new.created = old.created /\ new.granted = old.granted /\ new.clean = old.clean

\* What no request ever takes back.
NothingTakenBack ==
  /\ clock <= clock' /\ generation <= generation'
  /\ retired' = retired \/ retired'
  /\ \A r \in Runs : Final(r) => SameReceipt(run[r], run'[r])

\* A step of one run that has no receipt yet, or leaves what the receipt says.
LEMMA RunStep ==
  ASSUME RetentionTypeOK, RetentionInv, NEW r \in Runs, NEW row \in Rows,
         run' = [run EXCEPT ![r] = row], OnlyRun,
         row.observed <= clock,
         Final(r) => SameReceipt(run[r], row),
         row.phase = "final" /\ ~Final(r) =>
           /\ row.origin = row.granted /\ row.granted <= generation
           /\ row.observed <= row.created /\ row.created <= clock
  PROVE  RetentionTypeOK' /\ RetentionInv' /\ NothingTakenBack
<1>1. UNCHANGED <<clock, generation, retired, hold, plans, tombstone>>
  BY DEF OnlyRun, authority, retention
<1>2. run' \in [Runs -> Rows] /\ run'[r] = row /\ \A s \in Runs \ {r} : run'[s] = run[s]
  BY DEF RetentionTypeOK
<1>3. RetentionTypeOK'
  BY <1>1, <1>2 DEF RetentionTypeOK
<1>4. \A s \in Runs : Final(s) => SameReceipt(run[s], run'[s])
  BY <1>2 DEF Final, SameReceipt
<1>5. \A s \in DOMAIN tombstone : Final(s)' /\ run'[s].observed = run[s].observed
  BY <1>4 DEF RetentionInv, RetentionTypeOK, SameReceipt, Final
<1>6. DeletionAuthorized'
  BY <1>1, <1>5 DEF RetentionInv, DeletionAuthorized
<1>7. \A s \in Runs : run'[s].observed <= clock
  BY <1>2 DEF RetentionInv
<1>8. ASSUME NEW s \in Runs, Final(s)'
      PROVE  /\ run'[s].origin = run'[s].granted /\ run'[s].granted <= generation
             /\ run'[s].observed <= run'[s].created /\ run'[s].created <= clock
  BY <1>2, <1>4, <1>8 DEF RetentionInv, Final, SameReceipt
<1>9. RetentionInv'
  BY <1>1, <1>5, <1>6, <1>7, <1>8 DEF RetentionInv
<1>10. NothingTakenBack
  BY <1>1, <1>4 DEF NothingTakenBack, RetentionTypeOK
<1> QED
  BY <1>3, <1>9, <1>10

LEMMA RunInv ==
  ASSUME RetentionTypeOK, RetentionInv, NEW r \in Runs,
         \/ run_begin(r) \/ Perform(r) \/ evidence_record(r) \/ evidence_finalize(r)
         \/ conflicting_record(r) \/ evidence_revoke(r)
  PROVE  RetentionTypeOK' /\ RetentionInv' /\ NothingTakenBack
<1>1. /\ run[r] \in Rows /\ run[r].observed <= clock /\ OnlyRun
      /\ clock \in Nat /\ generation \in Nat
  BY DEF RetentionTypeOK, RetentionInv, run_begin, Perform, evidence_record, evidence_finalize,
     conflicting_record, evidence_revoke
<1>2. CASE run_begin(r)
  <2> DEFINE row == [run[r] EXCEPT !.phase = "begun", !.begun = generation]
  <2>1. row \in Rows /\ row.phase = "begun" /\ row.observed = run[r].observed
    BY <1>1 DEF Rows
  <2>2. run' = [run EXCEPT ![r] = row] /\ ~Final(r)
    BY <1>2 DEF run_begin, Final
  <2> HIDE DEF row
  <2> QED
    BY <1>1, <2>1, <2>2, RunStep
<1>3. CASE Perform(r)
  <2> DEFINE row == [run[r] EXCEPT !.phase = "executed", !.observed = clock]
  <2>1. row \in Rows /\ row.phase = "executed" /\ row.observed = clock
    BY <1>1 DEF Rows
  <2>2. run' = [run EXCEPT ![r] = row] /\ ~Final(r)
    BY <1>3 DEF Perform, Final
  <2> HIDE DEF row
  <2>3. row.observed <= clock /\ row.phase # "final"
    BY <1>1, <2>1
  <2> QED
    BY <1>1, <2>1, <2>2, <2>3, RunStep
<1>4. CASE evidence_record(r)
  <2> DEFINE row == [run[r] EXCEPT !.phase = "recorded", !.origin = generation]
  <2>1. row \in Rows /\ row.phase = "recorded" /\ row.observed = run[r].observed
    BY <1>1 DEF Rows
  <2>2. run' = [run EXCEPT ![r] = row] /\ ~Final(r)
    BY <1>4 DEF evidence_record, Final
  <2> HIDE DEF row
  <2> QED
    BY <1>1, <2>1, <2>2, RunStep
<1>5. CASE evidence_finalize(r)
  <2>1. PICK clean \in BOOLEAN :
          run' = [run EXCEPT ![r] =
            [run[r] EXCEPT !.phase = "final", !.created = clock,
                           !.granted = generation, !.clean = clean]]
    BY <1>5 DEF evidence_finalize
  <2> DEFINE row == [run[r] EXCEPT !.phase = "final", !.created = clock,
                                   !.granted = generation, !.clean = clean]
  <2>2. /\ row \in Rows /\ row.phase = "final" /\ row.observed = run[r].observed
        /\ row.created = clock /\ row.granted = generation /\ row.origin = run[r].origin
    BY <1>1 DEF Rows
  <2>3. ~Final(r) /\ run[r].origin = generation
    BY <1>5 DEF evidence_finalize, Final
  <2>4. run' = [run EXCEPT ![r] = row]
    BY <2>1
  <2> HIDE DEF row
  <2>5. /\ row.origin = row.granted /\ row.granted <= generation
        /\ row.observed <= row.created /\ row.created <= clock /\ row.observed <= clock
    BY <1>1, <2>2, <2>3
  <2> QED
    BY <1>1, <2>2, <2>3, <2>4, <2>5, RunStep
<1>6. CASE conflicting_record(r)
  <2> DEFINE row == [run[r] EXCEPT !.held = TRUE]
  <2>1. /\ row \in Rows /\ row.phase = run[r].phase /\ row.observed = run[r].observed
        /\ row.origin = run[r].origin /\ row.created = run[r].created
        /\ row.granted = run[r].granted /\ row.clean = run[r].clean
    BY <1>1 DEF Rows
  <2>2. run' = [run EXCEPT ![r] = row]
    BY <1>6 DEF conflicting_record
  <2> HIDE DEF row
  <2> QED
    BY <1>1, <2>1, <2>2, RunStep DEF Final, SameReceipt
<1>7. CASE evidence_revoke(r)
  <2> DEFINE row == [run[r] EXCEPT !.revoked = TRUE]
  <2>1. /\ row \in Rows /\ row.phase = run[r].phase /\ row.observed = run[r].observed
        /\ row.origin = run[r].origin /\ row.created = run[r].created
        /\ row.granted = run[r].granted /\ row.clean = run[r].clean
    BY <1>1 DEF Rows
  <2>2. run' = [run EXCEPT ![r] = row]
    BY <1>7 DEF evidence_revoke
  <2> HIDE DEF row
  <2> QED
    BY <1>1, <2>1, <2>2, RunStep DEF Final, SameReceipt
<1> QED
  BY <1>2, <1>3, <1>4, <1>5, <1>6, <1>7

\* Time, permissions and conditions.
LEMMA AuthorityStep ==
  ASSUME RetentionTypeOK, RetentionInv,
         \/ Tick \/ revoke_validation \/ ConditionsChange \/ target_retire
         \/ \E actor \in Withdrawable : revoke_actor(actor)
  PROVE  RetentionTypeOK' /\ RetentionInv' /\ NothingTakenBack
<1>1. UNCHANGED <<run, hold, plans, tombstone>>
  BY DEF Tick, revoke_validation, revoke_actor, Withdraw, ConditionsChange, target_retire, retention
<1>2. /\ clock \in Nat /\ generation \in Nat /\ clock' \in Nat /\ generation' \in Nat
      /\ clock <= clock' /\ generation <= generation'
  BY DEF Tick, revoke_validation, revoke_actor, Withdraw, ConditionsChange, target_retire,
     RetentionTypeOK
<1>13. retired' = retired \/ retired'
  BY DEF Tick, revoke_validation, revoke_actor, Withdraw, ConditionsChange, target_retire
<1>3. RetentionTypeOK'
  BY <1>1, <1>2 DEF RetentionTypeOK
<1>4. DeletionAuthorized'
  BY <1>1 DEF RetentionInv, DeletionAuthorized
<1>5. \A r \in Runs : run[r] \in Rows
  BY DEF RetentionTypeOK
<1>6. \A r \in Runs : run[r].observed \in Nat /\ run[r].granted \in Nat /\ run[r].created \in Nat
  BY <1>5 DEF Rows
<1>7. \A plan \in plans : plan.recorded \in Nat
  BY DEF RetentionTypeOK, DeletionPlans
<1>8. \A plan \in plans' : plan.recorded <= clock'
  BY <1>1, <1>2, <1>7 DEF RetentionInv
<1>9. \A r \in Runs : run[r].observed <= clock'
  BY <1>2, <1>6 DEF RetentionInv
<1>10. ASSUME NEW r \in Runs, Final(r)
       PROVE  /\ run[r].origin = run[r].granted /\ run[r].granted <= generation'
              /\ run[r].observed <= run[r].created /\ run[r].created <= clock'
  BY <1>2, <1>6, <1>10 DEF RetentionInv
<1>11. RetentionInv'
  BY <1>1, <1>4, <1>8, <1>9, <1>10 DEF RetentionInv, Final
<1>12. NothingTakenBack
  BY <1>1, <1>2, <1>13 DEF NothingTakenBack, Final, SameReceipt
<1> QED
  BY <1>3, <1>11, <1>12

\* A hold is placed or released on evidence that still exists.
LEMMA HoldStep ==
  ASSUME RetentionTypeOK, RetentionInv, NEW r \in Runs, NEW active \in BOOLEAN,
         evidence_retention_hold(r, active)
  PROVE  RetentionTypeOK' /\ RetentionInv' /\ NothingTakenBack
<1> DEFINE new == [active |-> active, sequence |-> hold[r].sequence + 1]
<1>1. /\ hold' = [hold EXCEPT ![r] = new]
      /\ UNCHANGED <<clock, generation, retired, run, plans, tombstone>>
      /\ r \notin DOMAIN tombstone
  BY DEF evidence_retention_hold, authority, Resolvable, Deleted
<1>2. hold[r] \in Holds
  BY DEF RetentionTypeOK
<1>3. new \in Holds
  BY <1>2 DEF Holds
<1> HIDE DEF new
<1>4. RetentionTypeOK'
  BY <1>1, <1>3 DEF RetentionTypeOK
<1>5. \A s \in DOMAIN tombstone : hold'[s] = hold[s]
  BY <1>1 DEF RetentionTypeOK
<1>6. DeletionAuthorized'
  BY <1>1, <1>5 DEF RetentionInv, DeletionAuthorized
<1>7. RetentionInv'
  BY <1>1, <1>6 DEF RetentionInv, Final
<1>8. NothingTakenBack
  BY <1>1 DEF NothingTakenBack, Final, SameReceipt, RetentionTypeOK
<1> QED
  BY <1>4, <1>7, <1>8

LEMMA PlanStep ==
  ASSUME RetentionTypeOK, RetentionInv, NEW r \in Runs,
         NEW reason \in {"RETENTION_EXPIRED", "EXPLICIT_REMOVAL"},
         evidence_retention_plan(r, reason)
  PROVE  RetentionTypeOK' /\ RetentionInv' /\ NothingTakenBack
<1> DEFINE new == [run |-> r, hold |-> hold[r], reason |-> reason,
                   granted |-> generation, recorded |-> clock]
<1>1. /\ plans' = plans \cup {new}
      /\ UNCHANGED <<clock, generation, retired, run, hold, tombstone>>
  BY DEF evidence_retention_plan, authority
<1>2. new \in DeletionPlans /\ new.recorded = clock
  BY DEF RetentionTypeOK, DeletionPlans
<1> HIDE DEF new
<1>3. RetentionTypeOK'
  BY <1>1, <1>2 DEF RetentionTypeOK
<1>4. DeletionAuthorized'
  BY <1>1 DEF RetentionInv, DeletionAuthorized
<1>5. \A plan \in plans' : plan.recorded <= clock'
  BY <1>1, <1>2 DEF RetentionInv, RetentionTypeOK
<1>6. RetentionInv'
  BY <1>1, <1>4, <1>5 DEF RetentionInv, Final
<1>7. NothingTakenBack
  BY <1>1 DEF NothingTakenBack, Final, SameReceipt, RetentionTypeOK
<1> QED
  BY <1>3, <1>6, <1>7

\* The plan still stands when the evidence is deleted, and nothing about evidence
\* that is gone changes afterwards.
LEMMA ApplyStep ==
  ASSUME RetentionTypeOK, RetentionInv, NEW plan \in plans, evidence_retention_apply(plan)
  PROVE  RetentionTypeOK' /\ RetentionInv' /\ NothingTakenBack
<1> DEFINE r == plan.run
           stone == [plan |-> plan, granted |-> generation, recorded |-> clock]
<1>1. /\ tombstone' = [s \in DOMAIN tombstone \cup {r} |-> IF s = r THEN stone ELSE tombstone[s]]
      /\ UNCHANGED <<clock, generation, retired, run, hold, plans>>
      /\ Final(r) /\ r \notin DOMAIN tombstone /\ ~hold[r].active /\ PlanValid(plan)
  BY DEF evidence_retention_apply, authority, Resolvable, Deleted
<1>2. plan \in DeletionPlans /\ r \in Runs /\ plan.recorded \in Nat /\ plan.recorded <= clock
      /\ clock \in Nat
  BY DEF RetentionTypeOK, RetentionInv, DeletionPlans
<1>3. stone.plan = plan /\ stone.granted = generation /\ stone.recorded = clock
  OBVIOUS
<1>4. /\ plan.granted = generation /\ clock <= plan.recorded + PlanLife /\ plan.hold = hold[r]
      /\ plan.reason = "RETENTION_EXPIRED" => clock > run[r].observed + Retention
  BY <1>1 DEF PlanValid, Removable, RetentionUntil
<1>5. clock \in plan.recorded .. plan.recorded + PlanLife
  BY <1>2, <1>4, RetentionAssumption
<1>6. DOMAIN tombstone' = DOMAIN tombstone \cup {r} /\ tombstone'[r] = stone
      /\ \A s \in DOMAIN tombstone : tombstone'[s] = tombstone[s]
  BY <1>1
<1> HIDE DEF stone
<1>7. ASSUME NEW s \in DOMAIN tombstone'
      PROVE  /\ tombstone'[s].plan.run = s /\ tombstone'[s].plan \in plans
             /\ ~hold[s].active /\ hold[s].sequence = tombstone'[s].plan.hold.sequence
             /\ tombstone'[s].granted = tombstone'[s].plan.granted
             /\ tombstone'[s].recorded
                  \in tombstone'[s].plan.recorded .. tombstone'[s].plan.recorded + PlanLife
             /\ tombstone'[s].plan.reason = "RETENTION_EXPIRED" =>
                  tombstone'[s].recorded > run[s].observed + Retention
  <2>1. CASE s = r
    BY <1>1, <1>3, <1>4, <1>5, <1>6, <2>1
  <2>2. CASE s # r
    BY <1>6, <2>2 DEF RetentionInv, DeletionAuthorized
  <2> QED
    BY <2>1, <2>2
<1>8. DeletionAuthorized'
  BY <1>1, <1>7 DEF DeletionAuthorized
<1>9. RetentionTypeOK'
  BY <1>1, <1>2, <1>6 DEF RetentionTypeOK
<1>10. RetentionInv'
  BY <1>1, <1>6, <1>8 DEF RetentionInv, Final
<1>11. NothingTakenBack
  BY <1>1 DEF NothingTakenBack, Final, SameReceipt, RetentionTypeOK
<1> QED
  BY <1>9, <1>10, <1>11

LEMMA RetentionStep ==
  ASSUME RetentionTypeOK, RetentionInv, RetentionNext
  PROVE  RetentionTypeOK' /\ RetentionInv' /\ NothingTakenBack
<1>1. Disturbed \subseteq Runs
  BY RetentionAssumption
<1>2. \/ Tick \/ revoke_validation \/ ConditionsChange \/ target_retire
      \/ \E actor \in Withdrawable : revoke_actor(actor)
      \/ \E r \in Runs :
           \/ run_begin(r) \/ Perform(r) \/ evidence_record(r) \/ evidence_finalize(r)
           \/ conflicting_record(r) \/ evidence_revoke(r)
      \/ \E r \in Runs, active \in BOOLEAN : evidence_retention_hold(r, active)
      \/ \E r \in Runs : \E reason \in {"RETENTION_EXPIRED", "EXPLICIT_REMOVAL"} :
           evidence_retention_plan(r, reason)
      \/ \E plan \in plans : evidence_retention_apply(plan)
  BY <1>1 DEF RetentionNext
<1> QED
  BY <1>2, AuthorityStep, RunInv, HoldStep, PlanStep, ApplyStep

LEMMA RetentionStutter ==
  ASSUME RetentionTypeOK, RetentionInv, UNCHANGED retentionVars
  PROVE  RetentionTypeOK' /\ RetentionInv' /\ NothingTakenBack
<1>1. UNCHANGED <<clock, generation, retired, run, hold, plans, tombstone>>
  BY DEF retentionVars, authority, retention
<1> QED
  BY <1>1 DEF RetentionTypeOK, RetentionInv, NothingTakenBack, DeletionAuthorized, Final, SameReceipt

LEMMA RetentionStart ==
  ASSUME RetentionInit
  PROVE  RetentionTypeOK /\ RetentionInv
<1>1. Absent \in Rows /\ Found \in Rows /\ NoHold \in Holds
      /\ Absent.observed = 0 /\ Found.observed = 0 /\ Absent.phase # "final"
      /\ Found.origin = 0 /\ Found.granted = 0 /\ Found.created = 0
  BY DEF Absent, Found, NoHold, Rows, Holds
<1>2. /\ clock = 0 /\ generation = 0 /\ plans = {} /\ DOMAIN tombstone = {}
      /\ run = [r \in Runs |-> IF r \in Finished THEN Found ELSE Absent]
      /\ hold = [r \in Runs |-> NoHold]
  BY DEF RetentionInit
<1> QED
  BY <1>1, <1>2 DEF RetentionTypeOK, RetentionInv, DeletionAuthorized, Final

\* What the follow-up of a finding leaves to the evidence.
LEMMA EvidenceOfFinding ==
  ASSUME RetentionTypeOK, RetentionInv, [Next]_vars
  PROVE  RetentionTypeOK' /\ RetentionInv' /\ NothingTakenBack
<1>1. RetentionNext \/ UNCHANGED retentionVars
  BY DEF Next, vars, finding_start, finding_confirm, finding_request_revalidation,
     finding_recur, finding_dispose, Advance
<1> QED
  BY <1>1, RetentionStep, RetentionStutter

\* Evidence is deleted (evidence_retention_apply) only by a plan that still stood: no hold
\* in between, the same permissions, within the plan's life, retention over if
\* that was the reason; for any number of runs, plans and holds.
THEOREM DeletionCorrect == Spec => []DeletionAuthorized
<1>1. Init => RetentionTypeOK /\ RetentionInv
  BY RetentionStart DEF Init
<1>2. RetentionTypeOK /\ RetentionInv /\ [Next]_vars => (RetentionTypeOK /\ RetentionInv)'
  BY EvidenceOfFinding
<1>3. RetentionInv => DeletionAuthorized
  BY DEF RetentionInv
<1> QED
  BY <1>1, <1>2, <1>3, PTL DEF Spec

-----------------------------------------------------------------------------
(* The follow-up of a finding.                                                 *)

Findings ==
  [status : {"OPEN", "IN_PROGRESS", "AWAITING_REVALIDATION", "VERIFIED"},
   pending : {None} \cup [run : Runs, requested : Nat],
   confirmation : {None} \cup [run : Runs, confirmed : Nat, granted : Nat],
   recurrences : SUBSET [run : Runs, linked : Nat],
   disposition : {"NONE", "BASELINE_REVISED", "TARGET_RETIRED"}, granted : Nat]

\* The request that is waited for names another run of another version.
PendingGood ==
  /\ finding.pending \in [run : Runs, requested : Nat]
  /\ finding.pending.run # Source
  /\ Version[finding.pending.run] # Version[Source]

\* What a confirmed finding rests on; the runs it names keep their receipts.
ConfirmationGood ==
  LET r == finding.confirmation.run
  IN /\ finding.confirmation \in [run : Runs, confirmed : Nat, granted : Nat]
     /\ PendingGood /\ r = finding.pending.run
     /\ Final(r) /\ run[r].clean
     /\ finding.pending.requested <= run[r].observed
     /\ run[r].created <= finding.confirmation.confirmed
     /\ finding.confirmation.confirmed <= run[r].observed + Freshness
     /\ finding.confirmation.granted = run[r].granted
     /\ finding.disposition = "NONE"

FindingInv ==
  /\ finding \in Findings
  /\ finding.status = "AWAITING_REVALIDATION" /\ finding.disposition = "NONE" => PendingGood
  /\ finding.status = "VERIFIED" => ConfirmationGood
  /\ finding.status # "VERIFIED" => finding.confirmation = None /\ finding.recurrences = {}
  /\ \A link \in finding.recurrences :
       Final(link.run) /\ run[link.run].observed > finding.confirmation.confirmed

\* Evidence that counts has a receipt of the present permissions and is not too old.
LEMMA FreshEvidence ==
  ASSUME NEW r \in Runs, FreshSource(r)
  PROVE  /\ Final(r) /\ r \notin DOMAIN tombstone
         /\ ~run[r].revoked /\ run[r].granted = generation /\ ~run[r].held
         /\ ~(clock > run[r].observed + Freshness) /\ ~retired
<1>1. Final(r) /\ r \notin DOMAIN tombstone /\ Reasons(r) = {}
  BY DEF FreshSource, Resolvable, Deleted
<1>2. "REVOKED" \notin Reasons(r) /\ "ORIGIN" \notin Reasons(r) /\ "HOLD" \notin Reasons(r)
      /\ "EXPIRED" \notin Reasons(r) /\ "CONDITIONS" \notin Reasons(r)
  BY <1>1
<1>3. ~run[r].revoked /\ ~OriginStale(r) /\ ~Disputed(r) /\ ~(clock > ValidUntil(r)) /\ Startable(r)
  BY <1>2 DEF Reasons
<1> QED
  BY <1>1, <1>3 DEF OriginStale, Disputed, ValidUntil, Startable

\* The event of a request stores the permissions it was made under.
LEMMA AdvanceFields ==
  ASSUME RetentionTypeOK, NEW state \in Findings, Advance(state)
  PROVE  /\ finding' \in Findings /\ UNCHANGED retentionVars
         /\ UNCHANGED <<clock, generation, run, tombstone>>
         /\ finding'.status = state.status /\ finding'.pending = state.pending
         /\ finding'.confirmation = state.confirmation
         /\ finding'.recurrences = state.recurrences
         /\ finding'.disposition = state.disposition
         /\ finding'.granted = generation
<1>1. generation \in Nat /\ finding' = [state EXCEPT !.granted = generation]
      /\ UNCHANGED retentionVars
  BY DEF Advance, RetentionTypeOK
<1>2. UNCHANGED <<clock, generation, run, tombstone>>
  BY <1>1 DEF retentionVars, authority, retention
<1> QED
  BY <1>1, <1>2 DEF Findings

\* The evidence changes and the finding does not: its runs keep their receipts.
LEMMA FindingFrame ==
  ASSUME FindingInv, RetentionTypeOK, NothingTakenBack, UNCHANGED finding
  PROVE  FindingInv'
<1>1. PendingGood => PendingGood'
  BY DEF PendingGood
<1>2. \A r \in Runs : Final(r) =>
        /\ Final(r)' /\ run'[r].observed = run[r].observed /\ run'[r].created = run[r].created
        /\ run'[r].granted = run[r].granted /\ run'[r].clean = run[r].clean
  BY DEF NothingTakenBack, SameReceipt, Final
<1>3. ConfirmationGood => ConfirmationGood'
  <2> SUFFICES ASSUME ConfirmationGood PROVE ConfirmationGood'
    OBVIOUS
  <2>1. PICK r \in Runs : r = finding.confirmation.run
    BY DEF ConfirmationGood
  <2> QED
    BY <1>1, <1>2, <2>1 DEF ConfirmationGood
<1>4. \A link \in finding.recurrences : link.run \in Runs
  BY DEF FindingInv, Findings
<1>5. \A link \in finding.recurrences :
        Final(link.run)' /\ run'[link.run].observed > finding.confirmation.confirmed
  BY <1>2, <1>4 DEF FindingInv
<1> QED
  BY <1>1, <1>3, <1>5 DEF FindingInv

LEMMA StartInv ==
  ASSUME FindingInv, RetentionTypeOK, finding_start
  PROVE  FindingInv'
<1> DEFINE state == [finding EXCEPT !.status = "IN_PROGRESS"]
<1>1. finding \in Findings /\ finding.status = "OPEN" /\ Advance(state)
  BY DEF FindingInv, finding_start
<1>2. /\ state \in Findings /\ state.status = "IN_PROGRESS"
      /\ state.confirmation = finding.confirmation /\ state.recurrences = finding.recurrences
  BY <1>1 DEF Findings
<1> HIDE DEF state
<1> QED
  BY <1>1, <1>2, AdvanceFields DEF FindingInv

LEMMA RequestInv ==
  ASSUME FindingInv, RetentionTypeOK, NEW r \in Runs, finding_request_revalidation(r)
  PROVE  FindingInv'
<1> DEFINE request == [run |-> r, requested |-> clock]
           asked == [finding EXCEPT !.status = "AWAITING_REVALIDATION"]
           state == [asked EXCEPT !.pending = request]
<1>1. /\ finding \in Findings /\ finding.status = "IN_PROGRESS" /\ Advance(state)
      /\ r # Source /\ Version[r] # Version[Source]
  BY DEF FindingInv, finding_request_revalidation
<1>2. request \in [run : Runs, requested : Nat] /\ request.run = r
  BY DEF RetentionTypeOK
<1>3. asked \in Findings /\ asked.status = "AWAITING_REVALIDATION"
      /\ asked.confirmation = finding.confirmation /\ asked.recurrences = finding.recurrences
  BY <1>1 DEF Findings
<1> HIDE DEF request, asked
<1>4. /\ state \in Findings /\ state.status = "AWAITING_REVALIDATION" /\ state.pending = request
      /\ state.confirmation = finding.confirmation /\ state.recurrences = finding.recurrences
  BY <1>2, <1>3 DEF Findings
<1> HIDE DEF state
<1>5. PendingGood'
  BY <1>1, <1>2, <1>4, AdvanceFields DEF PendingGood
<1> QED
  BY <1>1, <1>4, <1>5, AdvanceFields DEF FindingInv

LEMMA ConfirmInv ==
  ASSUME FindingInv, RetentionTypeOK, RetentionInv, finding_confirm
  PROVE  FindingInv'
<1>1. /\ finding \in Findings /\ finding.status = "AWAITING_REVALIDATION" /\ PendingGood
      /\ FreshSource(finding.pending.run) /\ NewEvidence(finding.pending)
      /\ run[finding.pending.run].clean /\ finding.disposition = "NONE"
      /\ finding.recurrences = {}
  BY DEF FindingInv, finding_confirm, May
<1>2. PICK r \in Runs : r = finding.pending.run
  BY <1>1 DEF PendingGood
<1> DEFINE proof == [run |-> r, confirmed |-> clock, granted |-> generation]
           verified == [finding EXCEPT !.status = "VERIFIED"]
           state == [verified EXCEPT !.confirmation = proof]
<1>3. Advance(state)
  BY <1>2 DEF finding_confirm
<1>4. /\ proof \in [run : Runs, confirmed : Nat, granted : Nat]
      /\ proof.run = r /\ proof.confirmed = clock /\ proof.granted = generation
  BY DEF RetentionTypeOK
<1>5. /\ verified \in Findings /\ verified.status = "VERIFIED"
      /\ verified.pending = finding.pending /\ verified.recurrences = finding.recurrences
      /\ verified.disposition = finding.disposition
  BY <1>1 DEF Findings
<1> HIDE DEF proof, verified
<1>6. /\ state \in Findings /\ state.status = "VERIFIED" /\ state.confirmation = proof
      /\ state.pending = finding.pending /\ state.recurrences = {}
      /\ state.disposition = "NONE"
  BY <1>1, <1>4, <1>5 DEF Findings
<1> HIDE DEF state
<1>7. /\ finding' \in Findings /\ finding'.status = "VERIFIED" /\ finding'.confirmation = proof
      /\ finding'.pending = finding.pending /\ finding'.recurrences = {}
      /\ finding'.disposition = "NONE" /\ UNCHANGED <<clock, generation, run, tombstone>>
  BY <1>3, <1>6, AdvanceFields
<1>8. PendingGood'
  BY <1>1, <1>7 DEF PendingGood
<1>9. FreshSource(r) /\ run[r].clean /\ finding.pending.requested <= run[r].observed
  BY <1>1, <1>2 DEF NewEvidence
<1>10. Final(r) /\ run[r].granted = generation /\ ~(clock > run[r].observed + Freshness)
  BY <1>9, FreshEvidence
<1>11. run[r].observed \in Nat /\ clock \in Nat /\ Freshness \in Nat
  BY RetentionAssumption DEF RetentionTypeOK, Rows
<1>12. run[r].created <= clock /\ clock <= run[r].observed + Freshness
  BY <1>10, <1>11 DEF RetentionInv
<1>13. ConfirmationGood'
  BY <1>2, <1>4, <1>7, <1>8, <1>9, <1>10, <1>12 DEF ConfirmationGood, Final
<1> QED
  BY <1>7, <1>13 DEF FindingInv

LEMMA RecurInv ==
  ASSUME FindingInv, RetentionTypeOK, NEW r \in Runs, finding_recur(r)
  PROVE  FindingInv'
<1> DEFINE link == [run |-> r, linked |-> clock]
           links == finding.recurrences \cup {link}
           state == [finding EXCEPT !.recurrences = links]
<1>1. /\ finding \in Findings /\ finding.status = "VERIFIED" /\ Advance(state)
      /\ ConfirmationGood /\ FreshSource(r) /\ finding.confirmation.confirmed < run[r].observed
  BY DEF FindingInv, finding_recur
<1>2. link \in [run : Runs, linked : Nat] /\ link.run = r
  BY DEF RetentionTypeOK
<1>3. Final(r)
  BY <1>1, FreshEvidence
<1> HIDE DEF link
<1>4. links \in SUBSET [run : Runs, linked : Nat]
  BY <1>1, <1>2 DEF Findings
<1>5. finding.confirmation.confirmed \in Nat /\ run[r].observed \in Nat
  BY <1>1 DEF ConfirmationGood, RetentionTypeOK, Rows
<1>6. \A l \in links : Final(l.run) /\ run[l.run].observed > finding.confirmation.confirmed
  BY <1>1, <1>2, <1>3, <1>5 DEF FindingInv
<1> HIDE DEF links
<1>7. /\ state \in Findings /\ state.status = "VERIFIED" /\ state.recurrences = links
      /\ state.confirmation = finding.confirmation /\ state.pending = finding.pending
      /\ state.disposition = finding.disposition
  BY <1>1, <1>4 DEF Findings
<1> HIDE DEF state
<1>8. /\ finding' \in Findings /\ finding'.status = "VERIFIED" /\ finding'.recurrences = links
      /\ finding'.confirmation = finding.confirmation /\ finding'.pending = finding.pending
      /\ finding'.disposition = finding.disposition
      /\ UNCHANGED <<clock, generation, run, tombstone>>
  BY <1>1, <1>7, AdvanceFields
<1>9. ConfirmationGood'
  BY <1>1, <1>8 DEF ConfirmationGood, PendingGood, Final
<1> QED
  BY <1>6, <1>8, <1>9 DEF FindingInv, Final

LEMMA DisposeInv ==
  ASSUME FindingInv, RetentionTypeOK, NEW d \in {"BASELINE_REVISED", "TARGET_RETIRED"},
         finding_dispose(d)
  PROVE  FindingInv'
<1> DEFINE disposed == [finding EXCEPT !.disposition = d]
           state == [disposed EXCEPT !.pending = None]
<1>1. finding \in Findings /\ finding.status # "VERIFIED" /\ Advance(state)
  BY DEF FindingInv, finding_dispose
<1>2. /\ disposed \in Findings /\ disposed.status = finding.status /\ disposed.disposition = d
      /\ disposed.confirmation = finding.confirmation
      /\ disposed.recurrences = finding.recurrences
  BY <1>1 DEF Findings
<1> HIDE DEF disposed
<1>3. /\ state \in Findings /\ state.status = finding.status /\ state.disposition = d
      /\ state.confirmation = finding.confirmation /\ state.recurrences = finding.recurrences
  BY <1>2 DEF Findings
<1> HIDE DEF state
<1> QED
  BY <1>1, <1>3, AdvanceFields DEF FindingInv

LEMMA FindingStep ==
  ASSUME FindingInv, RetentionTypeOK, RetentionInv, [Next]_vars
  PROVE  FindingInv'
<1>1. NothingTakenBack
  BY EvidenceOfFinding
<1>2. \/ UNCHANGED finding
      \/ finding_start \/ finding_confirm
      \/ \E r \in Runs : finding_request_revalidation(r)
      \/ \E r \in Runs : finding_recur(r)
      \/ \E d \in {"BASELINE_REVISED", "TARGET_RETIRED"} : finding_dispose(d)
  BY DEF Next, vars
<1> QED
  BY <1>1, <1>2, FindingFrame, StartInv, ConfirmInv, RequestInv, RecurInv, DisposeInv

LEMMA VerifiedFollows ==
  ASSUME FindingInv, RetentionTypeOK, RetentionInv
  PROVE  VerifiedByNewEvidence
<1>1. ASSUME finding.status = "VERIFIED"
      PROVE  LET r == finding.confirmation.run
             IN /\ r = finding.pending.run /\ Version[r] # Version[Source]
                /\ run[r].clean /\ run[r].origin = run[r].granted
                /\ finding.pending.requested <= run[r].observed
                /\ finding.confirmation.confirmed
                     \in run[r].created .. run[r].observed + Freshness
                /\ finding.disposition = "NONE"
                /\ \A link \in finding.recurrences :
                     run[link.run].observed > finding.confirmation.confirmed
  <2>1. ConfirmationGood
    BY <1>1 DEF FindingInv
  <2>2. PICK r \in Runs : r = finding.confirmation.run
    BY <2>1 DEF ConfirmationGood
  <2>3. run[r].created \in Nat /\ run[r].observed \in Nat /\ Freshness \in Nat
        /\ finding.confirmation.confirmed \in Nat
    BY <2>1, RetentionAssumption DEF RetentionTypeOK, Rows, ConfirmationGood
  <2>4. finding.confirmation.confirmed \in run[r].created .. run[r].observed + Freshness
    BY <2>1, <2>2, <2>3 DEF ConfirmationGood
  <2>5. Final(r) /\ run[r].origin = run[r].granted
    BY <2>1, <2>2 DEF ConfirmationGood, RetentionInv
  <2> QED
    BY <2>1, <2>2, <2>4, <2>5 DEF ConfirmationGood, PendingGood, FindingInv
<1>2. finding.disposition # "NONE" => finding.confirmation = None
  BY DEF FindingInv, ConfirmationGood
<1> QED
  BY <1>1, <1>2 DEF VerifiedByNewEvidence

LEMMA FindingStart ==
  ASSUME Init
  PROVE  FindingInv
<1>1. /\ finding.status = "OPEN" /\ finding.confirmation = None /\ finding.recurrences = {}
      /\ finding \in Findings
  BY DEF Init, Findings
<1> QED
  BY <1>1 DEF FindingInv

\* A finding counts as repaired (finding_lifecycle.py, confirm) only by a run of
\* another version that was asked for, measured afterwards, without the problem
\* and usable then, whatever happens to permissions and evidence in between; and
\* never once it was disposed of.
THEOREM VerifiedCorrect == Spec => []VerifiedByNewEvidence
<1> DEFINE Inv == RetentionTypeOK /\ RetentionInv /\ FindingInv
<1>1. Init => Inv
  BY RetentionStart, FindingStart DEF Init
<1>2. Inv /\ [Next]_vars => Inv'
  BY EvidenceOfFinding, FindingStep
<1>3. Inv => VerifiedByNewEvidence
  BY VerifiedFollows
<1> QED
  BY <1>1, <1>2, <1>3, PTL DEF Spec

LEMMA CurrentFollows ==
  ASSUME FindingInv, RetentionTypeOK
  PROVE  CurrentUnderItsPermissions
<1> SUFFICES ASSUME VerificationCurrent PROVE CurrentUnderItsPermissions
  BY DEF CurrentUnderItsPermissions
<1>1. ConfirmationGood /\ FreshSource(finding.confirmation.run)
  BY DEF VerificationCurrent, FindingInv
<1>2. PICK r \in Runs : r = finding.confirmation.run
  BY <1>1 DEF ConfirmationGood
<1>3. /\ r \notin DOMAIN tombstone /\ ~run[r].revoked /\ run[r].granted = generation
      /\ ~run[r].held /\ ~(clock > run[r].observed + Freshness) /\ ~retired
  BY <1>1, <1>2, FreshEvidence
<1>4. clock \in Nat /\ run[r].observed \in Nat /\ Freshness \in Nat
  BY RetentionAssumption DEF RetentionTypeOK, Rows
<1>5. clock <= run[r].observed + Freshness
  BY <1>3, <1>4
<1> QED
  BY <1>1, <1>2, <1>3, <1>5 DEF CurrentUnderItsPermissions, ConfirmationGood

-----------------------------------------------------------------------------
(* The reviews of mutations.                                                   *)

Reviews == [created : Int, validUntil : Int, granted : Nat]

\* A review is of evidence with a receipt, and an approval is of a review.
ReviewInv ==
  /\ review \in [Runs -> Reviews] /\ approval \in [Runs -> Reviews]
  /\ \A r \in Runs : review[r] # Unreviewed => Final(r)
  /\ \A r \in Runs : approval[r] # Unreviewed => review[r] # Unreviewed
  /\ ReviewsReadable

LEMMA EvidenceOfReview ==
  ASSUME RetentionTypeOK, RetentionInv, [ReviewNext]_<<retentionVars, reviewVars>>
  PROVE  RetentionTypeOK' /\ RetentionInv' /\ NothingTakenBack
<1>1. RetentionNext \/ UNCHANGED retentionVars
  BY DEF ReviewNext, mutation_review_validate, mutation_review_approve
<1> QED
  BY <1>1, RetentionStep, RetentionStutter

\* The evidence changes and no review does.
LEMMA ReviewFrame ==
  ASSUME RetentionTypeOK, RetentionInv, ReviewInv, NothingTakenBack, RetentionTypeOK',
         UNCHANGED reviewVars
  PROVE  ReviewInv'
<1>1. review' = review /\ approval' = approval
  BY DEF reviewVars
<1>2. \A r \in Runs : Final(r) =>
        /\ Final(r)' /\ run'[r].observed = run[r].observed /\ run'[r].created = run[r].created
  BY DEF NothingTakenBack, SameReceipt, Final
<1>3. clock \in Nat /\ clock' \in Nat /\ clock <= clock'
  BY DEF RetentionTypeOK, NothingTakenBack
<1>4. ASSUME NEW r \in Runs, review[r] # Unreviewed
      PROVE  /\ run'[r].created <= review[r].created /\ review[r].created <= clock'
             /\ review[r].validUntil = Earlier(review[r].created + ReviewLife, run'[r].observed + Freshness)
             /\ approval[r] # Unreviewed =>
                  review[r].created <= approval[r].created
                  /\ approval[r].created <= Earlier(clock', review[r].validUntil)
  <2>1. review[r] \in Reviews /\ approval[r] \in Reviews
    BY DEF ReviewInv
  <2>2. review[r].created \in Int /\ approval[r].created \in Int /\ review[r].validUntil \in Int
    BY <2>1 DEF Reviews
  <2>3. run'[r].observed = run[r].observed /\ run'[r].created = run[r].created
    BY <1>2, <1>4 DEF ReviewInv
  <2>4. /\ run[r].created <= review[r].created /\ review[r].created <= clock
        /\ review[r].validUntil = Earlier(review[r].created + ReviewLife, run[r].observed + Freshness)
        /\ approval[r] # Unreviewed =>
             review[r].created <= approval[r].created
             /\ approval[r].created <= Earlier(clock, review[r].validUntil)
    BY <1>4 DEF ReviewInv, ReviewsReadable, ValidUntil
  <2>5. review[r].created <= clock'
    BY <1>3, <2>2, <2>4
  <2>6. approval[r].created <= Earlier(clock, review[r].validUntil)
        => approval[r].created <= Earlier(clock', review[r].validUntil)
    BY <1>3, <2>2 DEF Earlier
  <2> QED
    BY <2>3, <2>4, <2>5, <2>6
<1>5. ReviewsReadable'
  BY <1>1, <1>4 DEF ReviewsReadable, ValidUntil
<1> QED
  BY <1>1, <1>2, <1>5 DEF ReviewInv

LEMMA ValidateInv ==
  ASSUME RetentionTypeOK, RetentionInv, ReviewInv, NEW r \in Runs, mutation_review_validate(r)
  PROVE  ReviewInv'
<1> DEFINE new == [created |-> clock, granted |-> generation,
                   validUntil |-> Earlier(clock + ReviewLife, ValidUntil(r))]
<1>1. /\ review' = [review EXCEPT ![r] = new] /\ approval' = approval
      /\ UNCHANGED <<clock, run>> /\ review[r] = Unreviewed /\ FreshSource(r)
  BY DEF mutation_review_validate, retentionVars, authority, SourceGrounded
<1>2. clock \in Nat /\ generation \in Nat /\ run[r].observed \in Nat /\ ReviewLife \in Nat
      /\ Freshness \in Nat
  BY RetentionAssumption, ReviewAssumption DEF RetentionTypeOK, Rows
<1>3. Final(r) /\ run[r].created <= clock
  BY <1>1, FreshEvidence DEF RetentionInv
<1>4. new \in Reviews /\ new.created = clock
      /\ new.validUntil = Earlier(clock + ReviewLife, ValidUntil(r))
  BY <1>2 DEF Reviews, Earlier, ValidUntil
<1> HIDE DEF new
<1>5. /\ review' \in [Runs -> Reviews] /\ review'[r] = new
      /\ \A s \in Runs \ {r} : review'[s] = review[s]
  BY <1>1, <1>4 DEF ReviewInv
<1>6. new # Unreviewed
  BY <1>2, <1>4 DEF Unreviewed
<1>7. approval[r] = Unreviewed
  BY <1>1 DEF ReviewInv
<1>8. ASSUME NEW s \in Runs, review'[s] # Unreviewed
      PROVE  /\ Final(s)
             /\ run[s].created <= review'[s].created /\ review'[s].created <= clock
             /\ review'[s].validUntil = Earlier(review'[s].created + ReviewLife, ValidUntil(s))
             /\ approval[s] # Unreviewed =>
                  review'[s].created <= approval[s].created
                  /\ approval[s].created <= Earlier(clock, review'[s].validUntil)
  <2>1. CASE s = r
    BY <1>2, <1>3, <1>4, <1>5, <1>7, <2>1
  <2>2. CASE s # r
    BY <1>5, <1>8, <2>2 DEF ReviewInv, ReviewsReadable
  <2> QED
    BY <2>1, <2>2
<1>9. ReviewsReadable'
  BY <1>1, <1>8 DEF ReviewsReadable, ValidUntil
<1> QED
  BY <1>1, <1>5, <1>6, <1>8, <1>9 DEF ReviewInv, Final

LEMMA ApproveInv ==
  ASSUME RetentionTypeOK, RetentionInv, ReviewInv, NEW r \in Runs, mutation_review_approve(r)
  PROVE  ReviewInv'
<1> DEFINE new == [created |-> clock, validUntil |-> review[r].validUntil, granted |-> generation]
<1>1. /\ approval' = [approval EXCEPT ![r] = new] /\ review' = review
      /\ UNCHANGED <<clock, run>> /\ review[r] # Unreviewed /\ clock <= review[r].validUntil
  BY DEF mutation_review_approve, retentionVars, authority, ValidationStands
<1>2. clock \in Nat /\ generation \in Nat /\ review[r] \in Reviews
  BY DEF RetentionTypeOK, ReviewInv
<1>3. review[r].validUntil \in Int /\ review[r].created <= clock
  BY <1>1, <1>2 DEF Reviews, ReviewInv, ReviewsReadable
<1>4. new \in Reviews /\ new.created = clock
  BY <1>2, <1>3 DEF Reviews
<1> HIDE DEF new
<1>5. /\ approval' \in [Runs -> Reviews] /\ approval'[r] = new
      /\ \A s \in Runs \ {r} : approval'[s] = approval[s]
  BY <1>1, <1>4 DEF ReviewInv
<1>6. clock <= Earlier(clock, review[r].validUntil)
  BY <1>1, <1>2, <1>3 DEF Earlier
<1>7. ASSUME NEW s \in Runs, review[s] # Unreviewed
      PROVE  /\ run[s].created <= review[s].created /\ review[s].created <= clock
             /\ review[s].validUntil = Earlier(review[s].created + ReviewLife, ValidUntil(s))
             /\ approval'[s] # Unreviewed =>
                  review[s].created <= approval'[s].created
                  /\ approval'[s].created <= Earlier(clock, review[s].validUntil)
  <2>1. CASE s = r
    BY <1>3, <1>4, <1>5, <1>6, <1>7, <2>1 DEF ReviewInv, ReviewsReadable
  <2>2. CASE s # r
    BY <1>5, <1>7, <2>2 DEF ReviewInv, ReviewsReadable
  <2> QED
    BY <2>1, <2>2
<1>8. ReviewsReadable'
  BY <1>1, <1>7 DEF ReviewsReadable, ValidUntil
<1>9. \A s \in Runs : approval'[s] # Unreviewed => review[s] # Unreviewed
  BY <1>1, <1>5 DEF ReviewInv
<1> QED
  BY <1>1, <1>5, <1>8, <1>9 DEF ReviewInv, Final

LEMMA ReviewStep ==
  ASSUME RetentionTypeOK, RetentionInv, ReviewInv, [ReviewNext]_<<retentionVars, reviewVars>>
  PROVE  ReviewInv'
<1>1. NothingTakenBack /\ RetentionTypeOK'
  BY EvidenceOfReview
<1>2. \/ UNCHANGED reviewVars
      \/ \E r \in Runs : mutation_review_validate(r)
      \/ \E r \in Runs : mutation_review_approve(r)
  BY DEF ReviewNext
<1> QED
  BY <1>1, <1>2, ReviewFrame, ValidateInv, ApproveInv

LEMMA ReviewStart ==
  ASSUME ReviewInit
  PROVE  ReviewInv
<1>1. Unreviewed \in Reviews
  BY DEF Unreviewed, Reviews
<1>2. /\ review \in [Runs -> Reviews] /\ approval \in [Runs -> Reviews]
      /\ \A r \in Runs : review[r] = Unreviewed /\ approval[r] = Unreviewed
  BY <1>1 DEF ReviewInit
<1> QED
  BY <1>2 DEF ReviewInv, ReviewsReadable

LEMMA ExclusionFollows ==
  ASSUME RetentionTypeOK, RetentionInv, ReviewInv
  PROVE  ExclusionsGrounded
<1> SUFFICES ASSUME NEW r \in Runs, Excluded(r)
             PROVE  /\ {run[r].granted, review[r].granted, approval[r].granted} = {generation}
                    /\ run[r].observed <= review[r].created
                    /\ review[r].created <= approval[r].created
                    /\ clock <= run[r].observed + Freshness
                    /\ clock <= review[r].created + ReviewLife
                    /\ ~run[r].revoked /\ ~run[r].held /\ r \notin DOMAIN tombstone
  BY DEF ExclusionsGrounded
<1>1. /\ FreshSource(r) /\ review[r] # Unreviewed /\ clock <= review[r].validUntil
      /\ review[r].granted = generation
      /\ approval[r] # Unreviewed /\ approval[r].granted = generation
  BY DEF Excluded, SourceGrounded, ValidationStands
<1>2. /\ Final(r) /\ r \notin DOMAIN tombstone
      /\ ~run[r].revoked /\ run[r].granted = generation /\ ~run[r].held
      /\ ~(clock > run[r].observed + Freshness)
  BY <1>1, FreshEvidence
<1>3. /\ clock \in Nat /\ Freshness \in Nat /\ ReviewLife \in Nat
      /\ run[r].observed \in Nat /\ run[r].created \in Nat /\ review[r].created \in Int
  BY RetentionAssumption, ReviewAssumption DEF RetentionTypeOK, Rows, ReviewInv, Reviews
<1>4. /\ run[r].created <= review[r].created
      /\ review[r].validUntil = Earlier(review[r].created + ReviewLife, run[r].observed + Freshness)
      /\ review[r].created <= approval[r].created
  BY <1>1 DEF ReviewInv, ReviewsReadable, ValidUntil
<1>5. run[r].observed <= run[r].created
  BY <1>2 DEF RetentionInv
<1>6. clock <= run[r].observed + Freshness
  BY <1>2, <1>3
<1>7. clock <= review[r].created + ReviewLife
  BY <1>1, <1>3, <1>4 DEF Earlier
<1>8. run[r].observed <= review[r].created
  BY <1>3, <1>4, <1>5
<1> QED
  BY <1>1, <1>2, <1>4, <1>6, <1>7, <1>8

\* Stored reviews of mutations (mutation_reviews.py) are never refused for what was
\* stored, and an exclusion stands on two signatures and evidence of one period of
\* permissions, in their order and within the life of that evidence.
THEOREM ReviewsCorrect == ReviewSpec => []ReviewsHold
<1> DEFINE Inv == RetentionTypeOK /\ RetentionInv /\ ReviewInv
<1>1. RetentionInit /\ ReviewInit => Inv
  BY RetentionStart, ReviewStart
<1>2. Inv /\ [ReviewNext]_<<retentionVars, reviewVars>> => Inv'
  BY EvidenceOfReview, ReviewStep
<1>3. Inv => ReviewsHold
  BY ExclusionFollows DEF ReviewsHold, ReviewInv
<1> QED
  BY <1>1, <1>2, <1>3, PTL DEF ReviewSpec

-----------------------------------------------------------------------------
(* Findings and reviews rest on the same evidence, which neither changes.     *)

\* A confirmation and an exclusion (finding_current, mutation_review_current) count
\* only as long as the evidence and the permissions they were given on do, when
\* findings and reviews of any number of runs go on beside each other.
THEOREM GrantsCorrect == RecordsSpec => []GrantsAreCurrent
<1> DEFINE Inv == RetentionTypeOK /\ RetentionInv /\ FindingInv /\ ReviewInv
<1>1. RecordsInit => Inv
  BY RetentionStart, FindingStart, ReviewStart DEF RecordsInit, Init
<1>2. ASSUME Inv, [RecordsNext]_<<vars, reviewVars, evidenceVars>>
      PROVE  [Next]_vars /\ [ReviewNext]_<<retentionVars, reviewVars>>
  <2>1. CASE Next /\ UNCHANGED <<evidenceVars, reviewVars>>
    <3>1. RetentionNext \/ UNCHANGED retentionVars
      BY <2>1 DEF Next, finding_start, finding_confirm, finding_request_revalidation,
         finding_recur, finding_dispose, Advance
    <3> QED
      BY <2>1, <3>1 DEF ReviewNext
  <2>2. CASE ReviewNext /\ UNCHANGED <<evidenceVars, finding>>
    <3>1. RetentionNext \/ UNCHANGED retentionVars
      BY <2>2 DEF ReviewNext, mutation_review_validate, mutation_review_approve
    <3> QED
      BY <2>2, <3>1 DEF Next, vars
  <2>3. CASE UNCHANGED <<vars, reviewVars>>
    BY <2>3 DEF vars
  <2> QED
    BY <1>2, <2>1, <2>2, <2>3 DEF RecordsNext
<1>3. Inv /\ [RecordsNext]_<<vars, reviewVars, evidenceVars>> => Inv'
  BY <1>2, EvidenceOfFinding, FindingStep, ReviewStep
<1>4. Inv => CurrentUnderItsPermissions
  BY CurrentFollows
<1>5. Inv => ReviewsHold
  BY ExclusionFollows DEF ReviewsHold, ReviewInv
<1>6. Inv => GrantsAreCurrent
  BY <1>4, <1>5 DEF GrantsAreCurrent
<1> QED
  BY <1>1, <1>3, <1>6, PTL DEF RecordsSpec

-----------------------------------------------------------------------------
(* The decision of a run.                                                      *)

\* Least elements take the place of an induction.
LEMMA Least ==
  ASSUME NEW T, T \subseteq Nat, T # {}
  PROVE  \E x \in T : \A y \in T : x <= y
<1> DEFINE R == OpToRel(<, Nat)
<1>1. IsWellFoundedOn(R, Nat)
  BY NatLessThanWellFounded
<1> HIDE DEF R
<1>2. PICK x \in T : \A y \in T : ~ (<<y, x>> \in R)
  BY <1>1, WFMin, Zenon
<1>3. \A y \in Nat : <<y, x>> \in R <=> y < x
  BY DEF R, OpToRel
<1>4. \A y \in T : x \in Nat /\ y \in Nat /\ ~ (y < x)
  BY <1>2, <1>3
<1> HIDE <1>3
<1> QED
  BY <1>4

LEMMA MinIsLeast ==
  ASSUME NEW T, T \subseteq Nat, T # {}
  PROVE  Min(T) \in T /\ \A y \in T : Min(T) <= y
BY Least DEF Min

\* What the book may hold of attempts: finitely many, one content per attempt.
BookOf(S) ==
  /\ S \subseteq Attempts /\ IsFiniteSet(S)
  /\ \A a, b \in S : a.id = b.id => a = b

\* An attempt as the source validates it.
LEMMA AttemptFields ==
  ASSUME NEW a \in Attempts
  PROVE  /\ a.id \in STRING /\ a.id # Nil /\ a.stage \in StageNames /\ a.started \in Nat
         /\ a.finished # Nil => a.finished \in Nat /\ a.started <= a.finished
         /\ a.stopped \in BOOLEAN /\ a.restored \in BOOLEAN
         /\ a.status \in {"COMPLETED", "FAILED", "TIMEOUT", "CANCELLED", "UNKNOWN"}
         /\ a.result \in {"PASS", "FAIL", "UNKNOWN", "ERROR", Nil}
BY AttemptAssumption, EvidenceAssumption DEF AttemptRecords

LEMMA WordsAreNotNil ==
  /\ "PASS" # Nil /\ "ATTEMPT_CONFLICT" # Nil /\ "LATE_ATTEMPT" # Nil
  /\ "FUTURE_ATTEMPT" # Nil /\ "AGGREGATION_INTEGRITY" # Nil /\ "DECISION_HOLD" # Nil
BY EvidenceAssumption

\* The answer of a stage as the evaluation contract wants it.
AnswerByTheBook(S, a) ==
  /\ a.status = "COMPLETED" /\ a.result = "PASS" /\ a.stopped /\ a.finished # Nil
  /\ \/ {b \in S : b.stage = a.stage} = {a} /\ a.retry = Nil
     \/ \E f \in S : {b \in S : b.stage = a.stage} = {a, f} /\ MayRepeat(a, f)
                     /\ Cardinality({b \in S : b.retry = f.id}) = 1
                     /\ f.result \in {Nil, "ERROR"}

\* The aggregation finds nothing to object to and no failure.
Flawless(S) ==
  /\ ~Contradiction(S) /\ Unanswered(S) = {} /\ Undecided(S) = {}
  /\ \A a \in Selected(S) : a.result # "FAIL"

LEMMA OneElement ==
  ASSUME NEW S, IsFiniteSet(S)
  PROVE  /\ Cardinality(S) \in Nat
         /\ ~(Cardinality(S) > 1) => \A a, b \in S : a = b
         /\ \A a \in S : (\A b \in S : b = a) => Cardinality(S) = 1
<1>1. Cardinality(S) \in Nat
  BY FS_CardinalityType
<1>2. ASSUME NEW a \in S, NEW b \in S, a # b, ~(Cardinality(S) > 1) PROVE FALSE
  <2>1. {a, b} \subseteq S /\ IsFiniteSet({a, b})
    BY <1>2, FS_Subset
  <2>2. Cardinality({a, b}) = 2
    <3>1. IsFiniteSet({a}) /\ Cardinality({a}) = 1
      BY FS_Singleton
    <3>2. Cardinality({a} \cup {b}) = 2
      BY <1>2, <3>1, FS_AddElement
    <3> QED
      BY <3>2, {a, b} = {a} \cup {b}
  <2>3. Cardinality({a, b}) <= Cardinality(S)
    BY <2>1, FS_Subset
  <2> QED
    BY <1>1, <1>2, <2>2, <2>3
<1>3. ASSUME NEW a \in S, \A b \in S : b = a PROVE Cardinality(S) = 1
  BY <1>3, S = {a}, FS_Singleton
<1> QED
  BY <1>1, <1>2, <1>3

\* An accepted answer is the stage's only one, alone or after the one attempt it repeats.
LEMMA SelectedByTheBook ==
  ASSUME NEW S, BookOf(S), Flawless(S), NEW a \in Selected(S)
  PROVE  a \in S /\ AnswerByTheBook(S, a)
<1>1. /\ a \in Logical(S) /\ a \in S /\ Definite(a) /\ Unrelated(S, a) = {}
      /\ ~InvalidRetry(S, a) /\ ~RetryLimit(S, a)
  BY DEF Selected, Answers, Logical
<1>2. S \subseteq Attempts /\ Logical(S) = S
  BY DEF BookOf, Flawless, Contradiction, Logical
<1>3. a.result = "PASS"
  <2>1. a.result \notin {Nil, "ERROR"} /\ a.result # "UNKNOWN" /\ a.result # "FAIL"
    BY <1>1 DEF Definite, Flawless, Undecided
  <2> QED
    BY <1>1, <1>2, <2>1, AttemptFields
<1>4. a.status = "COMPLETED" /\ a.stopped /\ a.finished # Nil
  BY <1>1 DEF Definite
<1>5. ASSUME NEW b \in S, b.stage = a.stage, b # a PROVE b.id = a.retry
  <2>1. b.id \in {a.id, a.retry} \/ b.retry = a.id
    BY <1>1, <1>2, <1>5 DEF Unrelated
  <2>2. b.id # a.id
    BY <1>1, <1>5 DEF BookOf
  <2>3. b.retry # a.id
    <3> SUFFICES ASSUME b.retry = a.id PROVE FALSE
      OBVIOUS
    <3>1. b.retry # Nil
      BY <1>1, <1>2, AttemptFields
    <3>2. ~InvalidRetry(S, b)
      BY <1>2 DEF Flawless, Contradiction
    <3>3. PICK c \in S : MayRepeat(b, c)
      BY <1>2, <3>1, <3>2 DEF InvalidRetry
    <3>4. c = a
      BY <1>1, <3>3 DEF MayRepeat, BookOf
    <3> QED
      BY <1>4, <3>3, <3>4 DEF MayRepeat
  <2> QED
    BY <2>1, <2>2, <2>3
<1>6. CASE a.retry = Nil
  <2>1. \A b \in S : b.stage = a.stage => b = a
    BY <1>2, <1>5, <1>6, AttemptFields
  <2>2. {b \in S : b.stage = a.stage} = {a}
    BY <1>1, <2>1
  <2> QED
    BY <1>1, <1>3, <1>4, <1>6, <2>2 DEF AnswerByTheBook
<1>7. CASE a.retry # Nil
  <2>1. PICK f \in S : MayRepeat(a, f)
    BY <1>1, <1>2, <1>7 DEF InvalidRetry
  <2>2. f.id = a.retry /\ f.stage = a.stage /\ f.status \in {"FAILED", "TIMEOUT"}
    BY <2>1 DEF MayRepeat
  <2>3. \A b \in S : b.stage = a.stage => b = a \/ b = f
    BY <1>5, <2>2 DEF BookOf
  <2>4. {b \in S : b.stage = a.stage} = {a, f}
    BY <1>1, <2>2, <2>3
  <2>5. ~Malformed(f)
    BY DEF Flawless, Contradiction
  <2>6. f.result \in {Nil, "ERROR"}
    BY <2>2, <2>5 DEF Malformed
  <2> DEFINE R == {b \in S : b.retry = f.id}
  <2>7. IsFiniteSet(R) /\ a \in R
    BY <1>1, <2>2, FS_Subset DEF BookOf
  <2>8. ~(Cardinality(R) > 1)
    BY <1>1, <1>7, <2>2 DEF RetryLimit
  <2>9. Cardinality(R) = 1
    BY <2>7, <2>8, OneElement
  <2> QED
    BY <1>1, <1>3, <1>4, <2>1, <2>4, <2>6, <2>9 DEF AnswerByTheBook
<1> QED
  BY <1>1, <1>6, <1>7

\* Stages that follow one another in order are all in order: the first stage out of
\* order with stage i would be out of order with the one before it.
LEMMA InOrder ==
  ASSUME NEW S, BookOf(S), Flawless(S),
         NEW i \in DOMAIN Stages, NEW j \in DOMAIN Stages, i < j,
         NEW a \in Selected(S), NEW b \in Selected(S),
         a.stage = Stages[i], b.stage = Stages[j]
  PROVE  a.finished <= b.started
<1>1. /\ S \subseteq Attempts /\ Selected(S) \subseteq S
      /\ \A c \in Selected(S) : c.finished # Nil
  BY SelectedByTheBook DEF BookOf, AnswerByTheBook
<1>2. \A c \in Selected(S) : c.started \in Nat /\ c.finished \in Nat /\ c.started <= c.finished
  BY <1>1, AttemptFields
<1>3. Len(Stages) \in Nat /\ DOMAIN Stages = 1..Len(Stages)
  BY AggregationAssumption
<1> DEFINE Before(n) == \A c \in Selected(S) : c.stage = Stages[n] => a.finished <= c.started
           T == {n \in DOMAIN Stages : i < n /\ ~Before(n)}
<1>4. SUFFICES ASSUME T # {} PROVE FALSE
  <2>1. j \notin T
    BY <1>4
  <2> QED
    BY <2>1
<1>5. T \subseteq Nat
  BY <1>3
<1>6. PICK n \in T : \A m \in T : n <= m
  BY <1>4, <1>5, Least
<1>7. n \in 1..Len(Stages) /\ i \in 1..Len(Stages) /\ i < n
  BY <1>3, <1>6
<1>8. PICK c \in Selected(S) : c.stage = Stages[n] /\ ~(a.finished <= c.started)
  BY <1>6
<1>9. n - 1 \in 1..(Len(Stages) - 1) /\ n - 1 \in DOMAIN Stages /\ (n - 1) + 1 = n
  BY <1>3, <1>7
<1>10. \A d \in Selected(S) : d.stage = Stages[n - 1] => d.finished <= c.started
  <2> SUFFICES ASSUME NEW d \in Selected(S), d.stage = Stages[n - 1], ~(d.finished <= c.started)
               PROVE FALSE
    OBVIOUS
  <2>1. c.started < d.finished
    BY <1>2
  <2>2. Disordered(S)
    BY <1>8, <1>9, <2>1 DEF Disordered, Flawless
  <2> QED
    BY <2>2 DEF Flawless, Contradiction
<1>11. CASE n - 1 = i
  BY <1>8, <1>10, <1>11
<1>12. CASE n - 1 # i
  <2>1. i < n - 1 /\ n - 1 < n
    BY <1>3, <1>7, <1>12
  <2>2. Before(n - 1)
    BY <1>5, <1>6, <1>9, <2>1
  <2>3. PICK d \in Selected(S) : d.stage = Stages[n - 1]
    <3>1. Stages[n - 1] \in StageNames
      BY <1>9 DEF StageNames
    <3> QED
      BY <3>1 DEF Flawless, Unanswered
  <2>4. a.finished <= d.started /\ d.finished <= c.started
    BY <1>10, <2>2, <2>3
  <2> QED
    BY <1>2, <1>8, <2>4
<1> QED
  BY <1>11, <1>12

\* The failed attempt before an answer failed: it is not the answer.
LEMMA PassingIsSelected ==
  ASSUME NEW S, BookOf(S), Flawless(S), NEW a \in S, a.result = "PASS"
  PROVE  a \in Selected(S)
<1>1. a.stage \in StageNames
  BY AttemptFields DEF BookOf
<1>2. PICK c \in Selected(S) : c.stage = a.stage
  BY <1>1 DEF Flawless, Unanswered
<1>3. c \in S /\ AnswerByTheBook(S, c)
  BY <1>2, SelectedByTheBook
<1>4. a = c \/ a.result \in {Nil, "ERROR"}
  BY <1>2, <1>3 DEF AnswerByTheBook
<1> QED
  BY <1>2, <1>4, WordsAreNotNil

LEMMA FlawlessByTheBook ==
  ASSUME NEW S, BookOf(S), Flawless(S)
  PROVE  AnsweredByTheBook(S)
<1>1. S \subseteq Attempts
  BY DEF BookOf
<1>2. ASSUME NEW stage \in StageNames
      PROVE  \E a \in S :
               /\ a.stage = stage /\ a.status = "COMPLETED" /\ a.result = "PASS"
               /\ a.stopped /\ a.finished # Nil
               /\ \/ {b \in S : b.stage = stage} = {a} /\ a.retry = Nil
                  \/ \E f \in S : {b \in S : b.stage = stage} = {a, f} /\ MayRepeat(a, f)
                                  /\ Cardinality({b \in S : b.retry = f.id}) = 1
                                  /\ f.result \in {Nil, "ERROR"}
  <2>1. PICK a \in Selected(S) : a.stage = stage
    BY DEF Flawless, Unanswered
  <2>2. a \in S /\ AnswerByTheBook(S, a)
    BY <2>1, SelectedByTheBook
  <2> QED
    BY <2>1, <2>2 DEF AnswerByTheBook
<1>3. \A a \in S : 0 <= a.started /\ (a.finished # Nil => a.finished <= Deadline)
  <2> SUFFICES ASSUME NEW a \in S
               PROVE 0 <= a.started /\ (a.finished # Nil => a.finished <= Deadline)
    OBVIOUS
  <2>1. ~OutOfWindow(a)
    BY DEF Flawless, Contradiction
  <2> QED
    BY <1>1, <2>1, AttemptFields, AggregationAssumption DEF OutOfWindow
<1>4. \A i, j \in DOMAIN Stages : \A a, b \in S :
        (i < j /\ a.stage = Stages[i] /\ b.stage = Stages[j] /\ a.result = "PASS" /\ b.result = "PASS")
          => a.finished <= b.started
  BY PassingIsSelected, InOrder
<1> QED
  BY <1>2, <1>3, <1>4 DEF AnsweredByTheBook

\* The other way round: a run answered by the book gives nothing to object to.
LEMMA BookIsFlawless ==
  ASSUME NEW S, BookOf(S), AnsweredByTheBook(S)
  PROVE  Flawless(S)
<1>1. S \subseteq Attempts /\ \A a \in S : a.stage \in StageNames
  BY AttemptFields DEF BookOf
<1>2. \A a \in S : ~OutOfWindow(a)
  <2> SUFFICES ASSUME NEW a \in S PROVE ~OutOfWindow(a)
    OBVIOUS
  <2>1. 0 <= a.started /\ (a.finished # Nil => a.finished <= Deadline)
    BY DEF AnsweredByTheBook
  <2> QED
    BY <1>1, <2>1, AttemptFields, AggregationAssumption DEF OutOfWindow
<1>3. Logical(S) = S
  BY <1>2 DEF Logical
<1>4. ASSUME NEW stage \in StageNames
      PROVE  \E a \in S : a.stage = stage /\ AnswerByTheBook(S, a)
  <2>1. PICK a \in S :
          /\ a.stage = stage /\ a.status = "COMPLETED" /\ a.result = "PASS"
          /\ a.stopped /\ a.finished # Nil
          /\ \/ {b \in S : b.stage = stage} = {a} /\ a.retry = Nil
             \/ \E f \in S : {b \in S : b.stage = stage} = {a, f} /\ MayRepeat(a, f)
                             /\ Cardinality({b \in S : b.retry = f.id}) = 1
                             /\ f.result \in {Nil, "ERROR"}
    BY DEF AnsweredByTheBook
  <2> QED
    BY <2>1 DEF AnswerByTheBook
<1>5. ASSUME NEW x \in S, NEW a \in S, x.stage = a.stage, AnswerByTheBook(S, a)
      PROVE  /\ ~Malformed(x) /\ ~InvalidRetry(S, x) /\ ~RetryLimit(S, x)
             /\ x = a \/ ~Definite(x)
             /\ x.id \in {a.id, a.retry}
  <2>1. CASE x = a
    <3>1. ~Malformed(a)
      BY <1>5, WordsAreNotNil DEF AnswerByTheBook, Malformed
    <3>2. a.retry # Nil => ~InvalidRetry(S, a) /\ Cardinality({b \in S : b.retry = a.retry}) = 1
      BY <1>3, <1>5 DEF AnswerByTheBook, InvalidRetry, MayRepeat
    <3> QED
      BY <2>1, <3>1, <3>2 DEF InvalidRetry, RetryLimit
  <2>2. CASE x # a
    <3>1. PICK f \in S : /\ {b \in S : b.stage = a.stage} = {a, f} /\ MayRepeat(a, f)
                         /\ f.result \in {Nil, "ERROR"}
      BY <1>5, <2>2 DEF AnswerByTheBook
    <3>2. x = f /\ f.id = a.retry /\ f.retry = Nil /\ f.status \in {"FAILED", "TIMEOUT"}
      BY <1>5, <2>2, <3>1 DEF MayRepeat
    <3> QED
      BY <3>1, <3>2 DEF Malformed, InvalidRetry, RetryLimit, Definite
  <2> QED
    BY <2>1, <2>2
<1>6. ASSUME NEW a \in S, AnswerByTheBook(S, a)
      PROVE  Answers(S, a.stage) = {a} /\ Unrelated(S, a) = {} /\ a \in Selected(S)
  <2>1. Definite(a)
    BY <1>6, WordsAreNotNil DEF AnswerByTheBook, Definite
  <2>2. a \in Answers(S, a.stage)
    BY <1>3, <1>5, <1>6, <2>1 DEF Answers
  <2>3. \A x \in Answers(S, a.stage) : x = a
    BY <1>3, <1>5, <1>6 DEF Answers
  <2>4. Unrelated(S, a) = {}
    BY <1>3, <1>5, <1>6 DEF Unrelated
  <2> QED
    BY <1>3, <2>2, <2>3, <2>4 DEF Selected
<1>7. \A x \in S : ~Malformed(x) /\ ~InvalidRetry(S, x) /\ ~RetryLimit(S, x)
  BY <1>1, <1>4, <1>5
<1>8. \A stage \in StageNames : ~(Cardinality(Answers(S, stage)) > 1)
  <2> SUFFICES ASSUME NEW stage \in StageNames PROVE ~(Cardinality(Answers(S, stage)) > 1)
    OBVIOUS
  <2>1. PICK a \in S : a.stage = stage /\ AnswerByTheBook(S, a)
    BY <1>4
  <2>2. Answers(S, stage) = {a}
    BY <1>6, <2>1
  <2> QED
    BY <2>2, FS_Singleton
<1>9. \A x \in S : Answers(S, x.stage) = {x} => Unrelated(S, x) = {}
  BY <1>1, <1>4, <1>6
<1>10. ASSUME NEW x \in Selected(S) PROVE x \in S /\ AnswerByTheBook(S, x)
  <2>1. x \in S /\ Answers(S, x.stage) = {x}
    BY <1>3 DEF Selected
  <2>2. PICK a \in S : a.stage = x.stage /\ AnswerByTheBook(S, a)
    BY <1>1, <1>4, <2>1
  <2>3. Answers(S, a.stage) = {a}
    BY <1>6, <2>2
  <2> QED
    BY <2>1, <2>2, <2>3
<1>11. Unanswered(S) = {}
  BY <1>4, <1>6 DEF Unanswered
<1>12. \A x \in Selected(S) : x.result = "PASS"
  BY <1>10 DEF AnswerByTheBook
<1>13. ~Disordered(S)
  <2> SUFFICES ASSUME NEW i \in 1..(Len(Stages) - 1), NEW a \in Selected(S), NEW b \in Selected(S),
                      a.stage = Stages[i], b.stage = Stages[i + 1], b.started < a.finished
               PROVE FALSE
    BY DEF Disordered
  <2>1. Len(Stages) \in Nat /\ DOMAIN Stages = 1..Len(Stages)
    BY AggregationAssumption
  <2>2. i \in DOMAIN Stages /\ i + 1 \in DOMAIN Stages /\ i < i + 1
    BY <2>1
  <2>3. a \in S /\ b \in S /\ a.result = "PASS" /\ b.result = "PASS" /\ a.finished # Nil
    BY <1>10 DEF AnswerByTheBook
  <2>4. a.finished <= b.started
    BY <2>2, <2>3 DEF AnsweredByTheBook
  <2>5. a.finished \in Nat /\ b.started \in Nat
    BY <1>1, <2>3, AttemptFields
  <2> QED
    BY <2>4, <2>5
<1>14. ~Contradiction(S)
  BY <1>2, <1>3, <1>7, <1>8, <1>9, <1>13 DEF Contradiction
<1> QED
  BY <1>11, <1>12, <1>14 DEF Flawless, Undecided

LEMMA AggregateFields ==
  ASSUME NEW S
  PROVE  /\ Aggregate(S, 0).observed = (IF S = {} THEN 0 ELSE Min({Observed(a) : a \in S}))
         /\ Aggregate(S, 0).integrity <=> Contradiction(S)
         /\ Aggregate(S, 0).missing <=>
              Required /\ (Contradiction(S) \/ Unanswered(S) # {} \/ Undecided(S) # {})
         /\ Aggregate(S, 0).criticalMissing => Aggregate(S, 0).missing
         /\ Aggregate(S, 0).violated <=> \E a \in Selected(S) : a.result = "FAIL"
         /\ Aggregate(S, 0).forbidden => Aggregate(S, 0).violated
         /\ Aggregate(S, 0).criticalViolated => Aggregate(S, 0).violated
BY DEF Aggregate

\* Nothing is observed after the book has it.
LEMMA ObservedBefore ==
  ASSUME NEW S, S \subseteq Attempts, NEW t \in Nat,
         \A a \in S : a.started <= t /\ (a.finished # Nil => a.finished <= t)
  PROVE  Aggregate(S, 0).observed \in Nat /\ Aggregate(S, 0).observed <= t
<1> DEFINE T == {Observed(a) : a \in S}
<1>1. \A a \in S : Observed(a) \in Nat /\ Observed(a) <= t
  BY AttemptFields DEF Observed
<1>2. CASE S = {}
  <2>1. Aggregate(S, 0).observed = 0
    BY <1>2 DEF Aggregate
  <2> QED
    BY <2>1
<1>3. CASE S # {}
  <2>1. T \subseteq Nat /\ T # {}
    BY <1>1, <1>3
  <2>2. Min(T) \in T
    BY <2>1, MinIsLeast
  <2>3. Min(T) \in Nat /\ Min(T) <= t
    BY <1>1, <2>2
  <2> QED
    BY <1>3, <2>3, AggregateFields
<1> QED
  BY <1>2, <1>3

\* What a green assurance says of the aggregation.
LEMMA Green ==
  ASSUME NEW S, NEW t \in Nat, NEW warning, Aggregate(S, 0).observed \in Nat,
         Aggregate(S, 0).observed <= t
  PROVE  Assurance(Aggregate(S, 0), t, warning) \in {"HEALTHY", "WARNING"} <=>
           /\ ~Contradiction(S) /\ \A a \in Selected(S) : a.result # "FAIL"
           /\ ~Aggregate(S, 0).missing
           /\ t - Aggregate(S, 0).observed <= MaxAge
<1>1. MaxAge \in Nat
  BY AggregationAssumption
<1> DEFINE g == Aggregate(S, 0)
<1>2. /\ g.integrity <=> Contradiction(S)
      /\ g.criticalMissing => g.missing
      /\ g.violated <=> \E a \in Selected(S) : a.result = "FAIL"
      /\ g.forbidden => g.violated
      /\ g.criticalViolated => g.violated
  BY AggregateFields
<1> HIDE DEF g
<1>3. g.observed \in Nat /\ g.observed <= t
  BY DEF g
<1>4. ~(g.observed > t) /\ (t - g.observed > MaxAge <=> ~(t - g.observed <= MaxAge))
  BY <1>1, <1>3
<1>5. Assurance(g, t, warning) \in {"HEALTHY", "WARNING"} <=>
        /\ ~g.integrity /\ ~g.violated /\ ~g.missing /\ t - g.observed <= MaxAge
  BY <1>2, <1>4 DEF Assurance
<1> QED
  BY <1>2, <1>5 DEF g

\* An answer of FAIL that the aggregation sees is an objection to it.
LEMMA FailureCounts ==
  ASSUME NEW S, BookOf(S), NEW a \in S, a.status = "COMPLETED", a.result = "FAIL",
         Required \/ Definite(a), ~Contradiction(S), ~Aggregate(S, 0).missing
  PROVE  \E c \in Selected(S) : c.result = "FAIL"
<1>1. a.stage \in StageNames /\ Logical(S) = S
  BY AttemptFields DEF BookOf, Contradiction, Logical
<1>2. CASE Definite(a)
  <2>1. a \in Answers(S, a.stage)
    BY <1>1, <1>2 DEF Answers, Contradiction
  <2>2. IsFiniteSet(Answers(S, a.stage))
    BY <1>1, FS_Subset DEF Answers, BookOf
  <2>3. ~(Cardinality(Answers(S, a.stage)) > 1)
    BY <1>1 DEF Contradiction
  <2>4. \A c \in Answers(S, a.stage) : c = a
    BY <2>1, <2>2, <2>3, OneElement
  <2>5. Answers(S, a.stage) = {a}
    BY <2>1, <2>4
  <2>6. a \in Selected(S)
    BY <1>1, <2>5 DEF Selected, Contradiction
  <2> QED
    BY <2>6
<1>3. CASE Required
  <2> SUFFICES ASSUME \A c \in Selected(S) : c.result # "FAIL" PROVE FALSE
    OBVIOUS
  <2>1. Flawless(S)
    BY <1>3, AggregateFields DEF Flawless
  <2>2. PICK c \in Selected(S) : c.stage = a.stage
    BY <1>1, <2>1 DEF Flawless, Unanswered
  <2>3. c \in S /\ AnswerByTheBook(S, c)
    BY <2>1, <2>2, SelectedByTheBook
  <2>4. a = c \/ a.result \in {Nil, "ERROR"}
    BY <2>2, <2>3 DEF AnswerByTheBook
  <2>5. "FAIL" # Nil
    BY EvidenceAssumption
  <2> QED
    BY <2>2, <2>4, <2>5
<1> QED
  BY <1>2, <1>3

\* The rows of the book: one content per attempt, nothing from the future, an
\* aggregation and a decision that say what the stored attempts say.
BookInv ==
  /\ bookClock \in Nat
  /\ BookOf(attempts)
  /\ \A a \in attempts : a.started <= bookClock /\ (a.finished # Nil => a.finished <= bookClock)
  /\ \A e \in events :
       /\ held # Nil
       /\ e.kind = "ATTEMPT_CONFLICT" => \E a \in attempts : a.id = e.attempt.id
  /\ aggregate # Nil => aggregate \in aggregates /\ aggregate = Latest
  /\ terminal # Nil =>
       /\ terminal.over = Latest /\ terminal.over \in aggregates
       /\ terminal.assurance = Assurance(terminal.over, terminal.at, terminal.warning)
       /\ terminal.at \in Nat /\ terminal.over.observed \in Nat
       /\ terminal.over.observed <= terminal.at
       /\ terminal.over.integrity => held # Nil

LEMMA BookSays ==
  ASSUME BookInv
  PROVE  GreenByTheBook /\ NothingPicked /\ ReadableRows
<1>1. ReadableRows
  BY DEF BookInv, ReadableRows
<1>2. GreenByTheBook
  <2> SUFFICES ASSUME terminal # Nil, Required
               PROVE  terminal.assurance \in {"HEALTHY", "WARNING"} <=>
                        /\ AnsweredByTheBook(attempts)
                        /\ terminal.at - terminal.over.observed <= MaxAge
    BY DEF GreenByTheBook
  <2>1. terminal.assurance \in {"HEALTHY", "WARNING"} <=>
          /\ ~Contradiction(attempts) /\ \A a \in Selected(attempts) : a.result # "FAIL"
          /\ ~Aggregate(attempts, 0).missing
          /\ terminal.at - terminal.over.observed <= MaxAge
    BY Green DEF BookInv, Latest
  <2>2. ~Contradiction(attempts) /\ ~Aggregate(attempts, 0).missing
          /\ (\A a \in Selected(attempts) : a.result # "FAIL")
        <=> Flawless(attempts)
    BY AggregateFields DEF Flawless
  <2>3. Flawless(attempts) <=> AnsweredByTheBook(attempts)
    BY FlawlessByTheBook, BookIsFlawless DEF BookInv
  <2> QED
    BY <2>1, <2>2, <2>3
<1>3. NothingPicked
  <2> SUFFICES ASSUME NEW a \in attempts, a.status = "COMPLETED", a.result = "FAIL",
                      Required \/ Definite(a), terminal # Nil, held = Nil,
                      terminal.assurance \in {"HEALTHY", "WARNING"}
               PROVE  FALSE
    BY DEF NothingPicked, BookInv
  <2>1. /\ ~Contradiction(attempts) /\ \A c \in Selected(attempts) : c.result # "FAIL"
        /\ ~Aggregate(attempts, 0).missing
    BY Green DEF BookInv, Latest
  <2> QED
    BY <2>1, FailureCounts DEF BookInv
<1> QED
  BY <1>1, <1>2, <1>3

RecordedNothing == UNCHANGED <<attempts, events, held, aggregate, aggregates, terminal>>

LEMMA BookTime ==
  ASSUME BookInv, TimePasses \/ NoticeNext
  PROVE  BookInv' /\ RecordedNothing
<1>1. RecordedNothing /\ bookClock' \in Nat /\ bookClock <= bookClock'
  <2>1. bookClock \in Nat
    BY DEF BookInv
  <2>2. CASE TimePasses
    BY <2>1, <2>2 DEF TimePasses, RecordedNothing
  <2>3. CASE NoticeNext
    BY <2>1, <2>3 DEF NoticeNext, record_evidence_state, RecordedNothing
  <2> QED
    BY <2>2, <2>3
<1>2. \A a \in attempts : a.started <= bookClock' /\ (a.finished # Nil => a.finished <= bookClock')
  <2> SUFFICES ASSUME NEW a \in attempts
               PROVE a.started <= bookClock' /\ (a.finished # Nil => a.finished <= bookClock')
    OBVIOUS
  <2>1. a.started \in Nat /\ (a.finished # Nil => a.finished \in Nat)
    BY AttemptFields DEF BookInv, BookOf
  <2>2. bookClock \in Nat /\ a.started <= bookClock /\ (a.finished # Nil => a.finished <= bookClock)
    BY DEF BookInv
  <2> QED
    BY <1>1, <2>1, <2>2
<1> QED
  BY <1>1, <1>2 DEF BookInv, RecordedNothing, Latest

LEMMA BookRecord ==
  ASSUME BookInv, NEW a \in Attempts, Record(a)
  PROVE  BookInv'
<1>1. /\ attempts' = attempts \cup {a} /\ aggregate' = Nil
      /\ UNCHANGED <<bookClock, events, held, aggregates, terminal>>
      /\ Refusal(a) = Nil
  BY DEF Record
<1>2. /\ \A b \in attempts : b.id # a.id
      /\ terminal = Nil
      /\ ~(a.started > bookClock) /\ ~(a.finished # Nil /\ a.finished > bookClock)
  BY <1>1, WordsAreNotNil DEF Refusal
<1>3. IsFiniteSet(attempts')
  BY <1>1, FS_AddElement DEF BookInv, BookOf
<1>4. BookOf(attempts')
  BY <1>1, <1>2, <1>3 DEF BookInv, BookOf
<1>5. bookClock \in Nat /\ a.started \in Nat /\ (a.finished # Nil => a.finished \in Nat)
  BY AttemptFields DEF BookInv
<1>6. a.started <= bookClock /\ (a.finished # Nil => a.finished <= bookClock)
  BY <1>2, <1>5
<1>7. \A b \in attempts' : b.started <= bookClock /\ (b.finished # Nil => b.finished <= bookClock)
  BY <1>1, <1>6 DEF BookInv
<1> QED
  BY <1>1, <1>2, <1>4, <1>7 DEF BookInv

LEMMA BookRefuse ==
  ASSUME BookInv, NEW a \in Attempts, Refuse(a)
  PROVE  BookInv'
<1>1. /\ events' = events \cup {[kind |-> Refusal(a), attempt |-> a]} /\ held' = Refusal(a)
      /\ Refusal(a) # Nil
      /\ UNCHANGED <<bookClock, attempts, aggregate, aggregates, terminal>>
  BY DEF Refuse
<1>2. Refusal(a) = "ATTEMPT_CONFLICT" => \E b \in attempts : b.id = a.id
  BY WordsAreNotNil DEF Refusal
<1>3. \A e \in events' :
        /\ held' # Nil
        /\ e.kind = "ATTEMPT_CONFLICT" => \E b \in attempts : b.id = e.attempt.id
  BY <1>1, <1>2 DEF BookInv
<1> QED
  BY <1>1, <1>3 DEF BookInv, Latest

LEMMA BookAggregate ==
  ASSUME BookInv, aggregate_run
  PROVE  BookInv'
<1>1. /\ aggregate' = Latest /\ aggregates' = aggregates \cup {Latest}
      /\ held # Nil => held' = held
      /\ UNCHANGED <<bookClock, attempts, events, terminal>>
  BY DEF aggregate_run
<1>2. Latest' = Latest
  BY <1>1 DEF Latest
<1> QED
  BY <1>1, <1>2 DEF BookInv

LEMMA BookFinalize ==
  ASSUME BookInv, NEW warning \in BOOLEAN, finalize(warning)
  PROVE  BookInv'
<1> DEFINE g == Latest
           assurance == Assurance(g, bookClock, warning)
           reason == IF held # Nil THEN held
                     ELSE IF g.integrity THEN "AGGREGATION_INTEGRITY"
                     ELSE IF assurance = "HOLD" THEN "DECISION_HOLD" ELSE Nil
           decision == [assurance |-> assurance, over |-> g, at |-> bookClock, warning |-> warning,
                        state |-> IF reason # Nil THEN "HOLD" ELSE "FINALIZED"]
<1>1. /\ aggregate' = g /\ aggregates' = aggregates \cup {g} /\ terminal' = decision
      /\ held' = reason /\ UNCHANGED <<bookClock, attempts, events>>
  BY DEF finalize
<1>2. /\ decision.over = g /\ decision.at = bookClock /\ decision.warning = warning
      /\ decision.assurance = Assurance(g, bookClock, warning)
  OBVIOUS
<1>3. (held # Nil => reason = held) /\ (g.integrity => reason # Nil)
  BY WordsAreNotNil
<1>4. g.observed \in Nat /\ g.observed <= bookClock
  BY ObservedBefore DEF BookInv, BookOf, Latest
<1>5. Latest' = g
  BY <1>1 DEF Latest
<1> HIDE DEF g, assurance, reason, decision
<1>6. bookClock \in Nat
  BY DEF BookInv
<1>7. terminal' # Nil =>
        /\ terminal'.over = Latest' /\ terminal'.over \in aggregates'
        /\ terminal'.assurance = Assurance(terminal'.over, terminal'.at, terminal'.warning)
        /\ terminal'.at \in Nat /\ terminal'.over.observed \in Nat
        /\ terminal'.over.observed <= terminal'.at
        /\ terminal'.over.integrity => held' # Nil
  BY <1>1, <1>2, <1>3, <1>4, <1>5, <1>6
<1>8. \A e \in events' :
        /\ held' # Nil
        /\ e.kind = "ATTEMPT_CONFLICT" => \E b \in attempts : b.id = e.attempt.id
  BY <1>1, <1>3 DEF BookInv
<1> QED
  BY <1>1, <1>5, <1>7, <1>8 DEF BookInv

\* What the run was told of its evidence is what the notices add up to.
NoticeInv ==
  /\ bookClock \in Nat
  /\ \A n \in notices : n.at \in Nat /\ n.at <= bookClock /\ n.until \in ValidUntils
  /\ evidence.state # "UNKNOWN" => ReadableEvidence

LEMMA NoticesTold ==
  ASSUME NoticeInv, NEW n \in Notices, record_evidence_state(n)
  PROVE  NoticeInv'
<1> DEFINE e == Entry(n, bookClock)
           first == {m.at : m \in ValidNotices}
           new == [state |-> n.state, until |-> n.until, generation |-> n.generation,
                   checked |-> IF n.state = "VALID" /\ first # {} THEN Min(first) ELSE bookClock]
<1>1. /\ notices' = notices \cup {e} /\ evidence' = new /\ bookClock' = bookClock /\ MayFollow(n)
  BY DEF record_evidence_state
<1>2. /\ e.state = n.state /\ e.until = n.until /\ e.generation = n.generation
      /\ e.at = bookClock
  BY DEF Entry
<1>3. /\ new.state = n.state /\ new.until = n.until /\ new.generation = n.generation
      /\ new.checked = IF n.state = "VALID" /\ first # {} THEN Min(first) ELSE bookClock
  OBVIOUS
<1>4. n.until \in ValidUntils /\ bookClock \in Nat
  BY DEF Notices, NoticeInv
<1> HIDE DEF e, new
<1>5. \A m \in notices' : m.at \in Nat /\ m.at <= bookClock /\ m.until \in ValidUntils
  BY <1>1, <1>2, <1>4 DEF NoticeInv
<1>6. e \in notices' /\ (n.state # "VALID" => evidence'.checked = e.at)
  BY <1>1, <1>2, <1>3
<1>7. CASE n.state # "VALID"
  BY <1>1, <1>2, <1>3, <1>4, <1>5, <1>6, <1>7 DEF NoticeInv, ReadableEvidence
<1>8. CASE n.state = "VALID"
  <2>1. ValidNotices' = ValidNotices \cup {e}
    BY <1>1, <1>2, <1>8 DEF ValidNotices
  <2> DEFINE F == {m.at : m \in ValidNotices'}
             D == Deadlines(ValidNotices)
             E == Deadlines(ValidNotices')
  <2>2. F = first \cup {bookClock}
    BY <1>2, <2>1
  <2>3. first \subseteq Nat /\ \A t \in first : t <= bookClock
    BY DEF NoticeInv, ValidNotices
  <2>4. evidence'.checked = Min(F)
    <3>1. F \subseteq Nat /\ F # {}
      BY <1>4, <2>2, <2>3
    <3>2. Min(F) \in F /\ \A t \in F : Min(F) <= t
      BY <3>1, MinIsLeast
    <3>3. CASE first = {}
      BY <1>1, <1>3, <2>2, <3>2, <3>3
    <3>4. CASE first # {}
      <4>1. Min(first) \in first /\ \A t \in first : Min(first) <= t
        BY <2>3, <3>4, MinIsLeast
      <4> DEFINE x == Min(first)
                 y == Min(F)
      <4>2. x \in Nat /\ y \in Nat /\ y <= x
        BY <2>2, <2>3, <3>1, <3>2, <4>1
      <4>3. x <= y
        BY <2>2, <2>3, <3>2, <4>1
      <4>4. x = y
        BY <4>2, <4>3
      <4> QED
        BY <1>1, <1>3, <1>8, <3>4, <4>4
    <3> QED
      BY <3>3, <3>4
  <2>5. E = (D \cup {n.until}) \ {Nil}
    BY <1>2, <2>1 DEF Deadlines
  <2>6. \A d \in D : n.until # Nil /\ n.until <= d
    BY <1>1, <1>8 DEF MayFollow
  <2>7. E # {} => evidence'.until = Min(E)
    <3> SUFFICES ASSUME E # {} PROVE evidence'.until = Min(E)
      OBVIOUS
    <3>1. n.until # Nil
      BY <2>5, <2>6 DEF Deadlines
    <3>2. n.until \in Nat /\ n.until \in E
      BY <1>4, <2>5, <3>1, EvidenceAssumption
    <3>3. E \subseteq Nat
      BY <1>5, EvidenceAssumption DEF Deadlines, ValidNotices
    <3>4. Min(E) \in E /\ \A d \in E : Min(E) <= d
      BY <3>2, <3>3, MinIsLeast
    <3>5. \A d \in E : n.until <= d
      BY <2>5, <2>6, <3>2
    <3> DEFINE y == Min(E)
    <3>6. y \in Nat /\ y <= n.until /\ n.until <= y
      BY <3>2, <3>3, <3>4, <3>5
    <3>7. n.until = y
      BY <3>2, <3>6
    <3> QED
      BY <1>1, <1>3, <3>7
  <2>8. evidence'.state = "VALID" /\ evidence'.until = e.until
        /\ evidence'.generation = e.generation /\ e.state = "VALID" /\ e.at <= bookClock'
    BY <1>1, <1>2, <1>3, <1>4, <1>8
  <2> HIDE DEF F, E
  <2>9. ReadableEvidence'
    BY <1>6, <2>4, <2>7, <2>8 DEF ReadableEvidence, F, E
  <2> QED
    BY <1>1, <1>4, <1>5, <2>9 DEF NoticeInv
<1> QED
  BY <1>7, <1>8

LEMMA NoticesKept ==
  ASSUME NoticeInv, UNCHANGED <<notices, evidence>>, bookClock' \in Nat, bookClock <= bookClock'
  PROVE  NoticeInv'
<1>1. \A n \in notices : n.at \in Nat /\ n.at <= bookClock'
  BY DEF NoticeInv
<1> QED
  BY <1>1 DEF NoticeInv, ReadableEvidence, ValidNotices

LEMMA BookStep ==
  ASSUME BookInv, NoticeInv, [EvidenceNext]_evidenceVars
  PROVE  BookInv' /\ NoticeInv'
<1>1. CASE TimePasses
  <2>1. BookInv'
    BY <1>1, BookTime
  <2>2. UNCHANGED <<notices, evidence>> /\ bookClock' \in Nat /\ bookClock <= bookClock'
    BY <1>1 DEF TimePasses, BookInv
  <2> QED
    BY <2>1, <2>2, NoticesKept
<1>2. CASE DecisionNext
  <2>1. BookInv'
    BY <1>2, BookRecord, BookRefuse, BookAggregate, BookFinalize DEF DecisionNext
  <2>2. UNCHANGED <<bookClock, notices, evidence>>
    BY <1>2 DEF DecisionNext, Record, Refuse, aggregate_run, finalize
  <2>3. bookClock' \in Nat /\ bookClock <= bookClock'
    BY <2>2 DEF BookInv
  <2> QED
    BY <2>1, <2>2, <2>3, NoticesKept
<1>3. CASE NoticeNext
  BY <1>3, BookTime, NoticesTold DEF NoticeNext
<1>4. CASE UNCHANGED evidenceVars
  <2>1. /\ UNCHANGED <<bookClock, attempts, events, held, aggregate, aggregates, terminal>>
        /\ UNCHANGED <<notices, evidence>>
    BY <1>4 DEF evidenceVars
  <2> QED
    BY <2>1 DEF BookInv, NoticeInv, Latest, ReadableEvidence, ValidNotices
<1> QED
  BY <1>1, <1>2, <1>3, <1>4 DEF EvidenceNext

LEMMA BookStart ==
  ASSUME EvidenceInit
  PROVE  BookInv /\ NoticeInv
<1>1. BookOf({})
  BY FS_EmptySet DEF BookOf
<1> QED
  BY <1>1 DEF EvidenceInit, BookInv, NoticeInv

\* The decision of a run (aggregation.py, decision.py) is green exactly when every
\* stage was answered by the book, takes no answer from several, and can be read
\* when it is used, for any stages, attempts and order of deliveries.
THEOREM DecisionsCorrect == EvidenceSpec => []DecisionsHold
<1> DEFINE Inv == BookInv /\ NoticeInv
<1>1. EvidenceInit => Inv
  BY BookStart
<1>2. Inv /\ [EvidenceNext]_evidenceVars => Inv'
  BY BookStep
<1>3. Inv => DecisionsHold
  BY BookSays DEF DecisionsHold, ReadableOnceKnown, NoticeInv
<1> QED
  BY <1>1, <1>2, <1>3, PTL DEF EvidenceSpec

\* A hold, a revocation and a deletion (record_evidence_state, run_state.state) are
\* for good: no later delivery, notice or decision takes them back.
THEOREM WithdrawalCorrect == EvidenceSpec => WithdrawnForGood
<1>1. ASSUME [EvidenceNext]_evidenceVars
      PROVE  [/\ "HOLD" \in UseReasons => "HOLD" \in UseReasons'
              /\ evidence.state \in {"REVOKED", "DELETED"} =>
                   "EVIDENCE_NOT_CURRENT" \in UseReasons']_evidenceVars
  <2>1. "HOLD" \in UseReasons <=> held # Nil
    BY DEF UseReasons
  <2>2. "HOLD" \in UseReasons' <=> held' # Nil
    BY DEF UseReasons
  <2>3. CASE UNCHANGED evidenceVars
    BY <2>3
  <2>4. CASE EvidenceNext
    <3>1. held # Nil => held' # Nil
      BY <2>4, WordsAreNotNil DEF EvidenceNext, TimePasses, DecisionNext, NoticeNext, Record,
         Refuse, aggregate_run, finalize, record_evidence_state
    <3>2. evidence.state \in {"REVOKED", "DELETED"} => evidence'.state = evidence.state
      <4>1. CASE NoticeNext
        <5>1. PICK n \in Notices : record_evidence_state(n)
          BY <4>1 DEF NoticeNext
        <5>2. evidence'.state = n.state /\ MayFollow(n)
          BY <5>1 DEF record_evidence_state
        <5> QED
          BY <5>2 DEF MayFollow
      <4>2. CASE TimePasses \/ DecisionNext
        BY <4>2 DEF TimePasses, DecisionNext, Record, Refuse, aggregate_run, finalize
      <4> QED
        BY <2>4, <4>1, <4>2 DEF EvidenceNext
    <3>3. evidence'.state # "VALID" => "EVIDENCE_NOT_CURRENT" \in UseReasons'
      BY DEF UseReasons, EvidenceStands
    <3> QED
      BY <2>1, <2>2, <3>1, <3>2, <3>3
  <2> QED
    BY <1>1, <2>3, <2>4
<1> QED
  BY <1>1, PTL DEF EvidenceSpec, WithdrawnForGood
=============================================================================
