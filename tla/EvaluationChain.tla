--------------------------- MODULE EvaluationChain ---------------------------
(***************************************************************************)
(* The chain from an adopted policy to a green answer of the CI gate:      *)
(* evaluation_authority.py, baseline_authority.py, baseline_generations.py,*)
(* transition_authority.py, transition_acceptance.py, regression_runs.py   *)
(* and the receipts of assurance_authority.py, in the transactions of the  *)
(* permission store.                                                       *)
(*                                                                         *)
(* One series of contracts and one of baselines.  A fixture admission      *)
(* fixes the first contract and its run Base; a baseline is taken from     *)
(* Base; the second contract, which compares with that baseline, is proved *)
(* by a pair of candidate runs; Ci is a regression run under it, and a     *)
(* second baseline may be taken from Ci.                                   *)
(*                                                                         *)
(* Every use of a stored row recomputes the grounds it rests on at the     *)
(* time of the request; the definitions under "Grounds" are these checks.  *)
(***************************************************************************)
EXTENDS Adoption, FiniteSets

CONSTANTS
  Sides,           \* the candidate runs: the old and the new contract
  Freshness,       \* FRESHNESS_SECONDS, of a candidate's or regression run's evidence
  BaselineLife,    \* BASELINE_SECONDS, of the evidence of Base
  RunLife,         \* from the creation of a run to its deadline
  MaxValidations,  \* bound: validations of one proposal
  MaxRevocations   \* bound: revoked receipts and baselines

ASSUME ChainAssumption ==
  /\ {Freshness, BaselineLife, RunLife, MaxValidations} \subseteq Nat \ {0}
  /\ MaxRevocations \in Nat
  /\ ValidationTtl <= Freshness /\ Freshness <= BaselineLife

Base == "base"
Ci == "ci"
Runs == {Base, Ci} \cup Sides
Generations == {1, 2}

VARIABLES
  admission,   \* fixture_admissions: None or [at, permission, policy]
  contracts,   \* generation -> [proposed, validations, adopted]
  candidate,   \* transition_candidates: None or [at, permission]
  run,         \* eval_runs, the recorded evidence and the receipt
  baselines    \* generation -> [proposed, validations, adopted, revoked]

chainVars == <<admission, contracts, candidate, run, baselines>>
vars == <<adoptionVars, chainVars>>

Absent == [phase |-> "absent", created |-> None, observed |-> None, origin |-> None,
           receipt |-> None, healthy |-> FALSE, revoked |-> FALSE]

Init ==
  /\ AdoptionInit
  /\ admission = None /\ candidate = None
  /\ contracts = [g \in Generations |-> [proposed |-> FALSE, validations |-> {}, adopted |-> None]]
  /\ run = [r \in Runs |-> Absent]
  /\ baselines = [g \in Generations |->
       [proposed |-> None, validations |-> {}, adopted |-> None, revoked |-> FALSE]]

\* _evaluation_generation and baseline_authority._current_generation.
Current(series) == Cardinality({g \in Generations : series[g].adopted # None})

-----------------------------------------------------------------------------
(* Grounds.                                                                 *)

NobodyRevoked == ~ActorRevoked(Manager) /\ ~ActorRevoked(Validator)

\* _assert_validation_fresh, _live_validation: a validation counts while it is
\* young, under the permissions it was made under.
Live(row, now) ==
  /\ row.at <= now /\ now < row.expires
  /\ row.permission = permissionGeneration
  /\ NobodyRevoked

\* _policy: the adopted policy is in force and is the one of the contract.
PolicyCurrent(now) == CurrentValid(now) /\ admission.policy = PolicyGeneration

\* Mutant of PolicyPinned: whatever policy is current counts.
PolicyUnpinned(now) == CurrentValid(now)

\* _pinned_policy: the generation the contract names is in force, even if a
\* younger one was adopted.
PolicyPinned(now) == PolicyAtValid(admission.policy, now)

\* _validate_state of the first contract; its calibration is the admission's.
FirstState(policy) == policy /\ admission.permission = permissionGeneration

FirstContract(policy, now) ==
  /\ FirstState(policy)
  /\ contracts[1].adopted # None /\ Live(contracts[1].adopted, now)

ValidUntil(r) == run[r].observed + (IF r = Base THEN BaselineLife ELSE Freshness)

\* evidence_current gives no reason against the receipt.
EvidenceCurrent(r, now) ==
  /\ run[r].receipt # None /\ ~run[r].revoked
  /\ run[r].receipt.permission = permissionGeneration /\ ~ActorRevoked(Validator)
  /\ now <= ValidUntil(r)

\* _check_start of Base.
BaseStart(now) == FirstContract(PolicyPinned(now), now)

\* Mutant of BaseReady: the grounds of the run's contract are not looked at.
BaseReadyByEvidence(now) == EvidenceCurrent(Base, now) /\ run[Base].healthy

\* _ready_source of the first baseline.
BaseReady(now) == EvidenceCurrent(Base, now) /\ BaseStart(now) /\ run[Base].healthy

\* baseline_resolve of the baseline that the second contract compares with:
\* it need not be the current one, and must not be revoked.
FirstBaseline(now) ==
  /\ baselines[1].adopted # None /\ ~baselines[1].revoked
  /\ now <= ValidUntil(Base)
  /\ Live(baselines[1].adopted, now)
  /\ BaseReady(now)

\* _transition_preflight: the second contract may still be tried.
Preflight(now) ==
  /\ contracts[2].proposed /\ Current(contracts) = 1
  /\ FirstContract(PolicyCurrent(now), now)
  /\ Current(baselines) = 1 /\ FirstBaseline(now)

\* fresh_candidate, which is also _check_start of the candidate runs.
CandidateFresh(now) ==
  /\ candidate # None /\ candidate.permission = permissionGeneration
  /\ NobodyRevoked
  /\ Preflight(now)

\* Mutant of Proof: the receipts only have to exist.
ProofByReceipt(now) == \A side \in Sides : run[side].receipt # None /\ run[side].healthy

\* _live_sources: both receipts of the candidate runs can be used.
Proof(now) == \A side \in Sides : EvidenceCurrent(side, now) /\ run[side].healthy

\* _validate_transition_state.
SecondContract(policy, now) ==
  /\ contracts[2].adopted # None /\ Live(contracts[2].adopted, now)
  /\ candidate.permission = permissionGeneration
  /\ FirstContract(policy, now)
  /\ FirstBaseline(now)
  /\ Proof(now)

\* Mutant of Start: a contract that was adopted counts for good.
StartOnceAdopted(r, now) ==
  CASE r = Base -> BaseStart(now)
    [] r = Ci -> contracts[2].adopted # None
    [] OTHER -> CandidateFresh(now)

\* _check_start.
Start(r, now) ==
  CASE r = Base -> BaseStart(now)
    [] r = Ci -> SecondContract(PolicyPinned(now), now)
    [] OTHER -> CandidateFresh(now)

CiReady(now) == EvidenceCurrent(Ci, now) /\ Start(Ci, now) /\ run[Ci].healthy

\* ci_check: the answer "use".
CiUse(now) ==
  /\ run[Ci].phase = "final" /\ run[Ci].healthy
  /\ EvidenceCurrent(Ci, now)
  /\ Current(contracts) = 2
  /\ Start(Ci, now)

-----------------------------------------------------------------------------
(* Requests.                                                                *)

\* A request of the extension, under an id that is not used again.
Ask(actor, now) ==
  /\ ~ActorRevoked(actor) /\ Now(now)
  /\ UNCHANGED <<permissionGeneration, revocations, policyVars, idempotency>>

\* fixture_prepare.
fixture_prepare(now) ==
  /\ Ask(Manager, now)
  /\ admission = None /\ CurrentValid(now)
  /\ admission' = [at |-> now, permission |-> permissionGeneration, policy |-> PolicyGeneration]
  /\ UNCHANGED <<contracts, candidate, run, baselines>>

contract_propose(g, now) ==
  /\ Ask(Manager, now)
  /\ admission # None /\ Current(contracts) = g - 1
  /\ contracts' = [contracts EXCEPT ![g].proposed = TRUE]
  /\ UNCHANGED <<admission, candidate, run, baselines>>

\* A row of eval_validations or baseline_validations.
Validated(until, now) == [at |-> now, expires |-> until, permission |-> permissionGeneration]

\* contract_validate of the first, contract_candidate_validate of the second.
contract_validate(g, now) ==
  /\ Ask(Validator, now)
  /\ contracts[g].proposed
  /\ IF g = 1 THEN FirstState(PolicyCurrent(now)) ELSE CandidateFresh(now) /\ Proof(now)
  /\ LET row == Validated(now + ValidationTtl, now)
     IN /\ Cardinality(contracts[g].validations \cup {row}) <= MaxValidations
        /\ contracts' = [contracts EXCEPT ![g].validations = @ \cup {row}]
  /\ UNCHANGED <<admission, candidate, run, baselines>>

\* contract_adopt looks at the permissions and the age of the validation and
\* computes everything else anew.
contract_adopt(row, now) ==
  /\ Ask(Manager, now)
  /\ Current(contracts) = 0
  /\ row.at <= now /\ now < row.expires /\ row.permission = permissionGeneration
  /\ FirstState(PolicyCurrent(now))
  /\ contracts' = [contracts EXCEPT ![1].adopted = row]
  /\ UNCHANGED <<admission, candidate, run, baselines>>

contract_candidate_prepare(now) ==
  /\ Ask(Validator, now)
  /\ candidate = None /\ Preflight(now)
  /\ candidate' = [at |-> now, permission |-> permissionGeneration]
  /\ UNCHANGED <<admission, contracts, run, baselines>>

\* contract_candidate_adopt.
contract_candidate_adopt(row, now) ==
  /\ Ask(Manager, now)
  /\ CandidateFresh(now) /\ Proof(now)
  /\ row.at <= now /\ now < row.expires /\ row.permission = permissionGeneration
  /\ contracts' = [contracts EXCEPT ![2].adopted = row]
  /\ UNCHANGED <<admission, candidate, run, baselines>>

-----------------------------------------------------------------------------
(* Runs and their evidence.                                                 *)

\* run_begin of Base and contract_candidate_begin take the time of creation
\* from what was prepared; run_begin of Ci rebuilds what run_prepare returned.
run_begin(r, created, now) ==
  /\ Ask(Operator, now)
  /\ run[r].phase = "absent"
  /\ created <= now /\ now < created + RunLife
  /\ CASE r = Base -> /\ admission # None /\ created = admission.at
                      /\ Current(contracts) = 1 /\ FirstContract(PolicyCurrent(now), now)
       [] r = Ci -> /\ SecondContract(PolicyCurrent(now), now)
                    /\ created >= contracts[2].adopted.at
       [] OTHER -> CandidateFresh(now) /\ created = candidate.at
  /\ run' = [run EXCEPT ![r].phase = "begun", ![r].created = created]
  /\ UNCHANGED <<admission, contracts, candidate, baselines>>

\* evidence_open.
evidence_open(r, now) ==
  /\ Ask(Operator, now)
  /\ run[r].phase = "begun" /\ Start(r, now)
  /\ run' = [run EXCEPT ![r].phase = "open"]
  /\ UNCHANGED <<admission, contracts, candidate, baselines>>

\* The operations are dispatched, run and settled; the last one's end is the
\* time of the observation.
Perform(r, now) ==
  /\ Ask(Operator, now)
  /\ run[r].phase = "open" /\ Start(r, now) /\ now < run[r].created + RunLife
  /\ run' = [run EXCEPT ![r].phase = "performed", ![r].observed = now]
  /\ UNCHANGED <<admission, contracts, candidate, baselines>>

\* evidence_record keeps the permissions it was made under as the origin.
evidence_record(r, now) ==
  /\ Ask(Validator, now)
  /\ run[r].phase = "performed"
  /\ run' = [run EXCEPT ![r].phase = "recorded",
                        ![r].origin = [at |-> now, permission |-> permissionGeneration]]
  /\ UNCHANGED <<admission, contracts, candidate, baselines>>

\* evidence_finalize, after the resources were closed.
evidence_finalize(r, healthy, now) ==
  /\ Ask(Operator, now)
  /\ run[r].phase = "recorded"
  /\ run[r].origin.permission = permissionGeneration /\ ~ActorRevoked(Validator)
  /\ run' = [run EXCEPT ![r].phase = "final", ![r].healthy = healthy,
                        ![r].receipt = [at |-> now, permission |-> permissionGeneration]]
  /\ UNCHANGED <<admission, contracts, candidate, baselines>>

Revocations == Cardinality({r \in Runs : run[r].revoked})
               + Cardinality({g \in Generations : baselines[g].revoked})

evidence_revoke(r, now) ==
  /\ Ask(Operator, now)
  /\ run[r].receipt # None /\ ~run[r].revoked /\ Revocations < MaxRevocations
  /\ run' = [run EXCEPT ![r].revoked = TRUE]
  /\ UNCHANGED <<admission, contracts, candidate, baselines>>

\* run_cancel_finalize after resource_cancel: only for Ci, before its receipt.
run_cancel(now) ==
  /\ Ask(Operator, now)
  /\ run[Ci].phase \in {"begun", "open", "performed", "recorded"}
  /\ run' = [run EXCEPT ![Ci].phase = "cancelled"]
  /\ UNCHANGED <<admission, contracts, candidate, baselines>>

-----------------------------------------------------------------------------
(* Baselines.                                                               *)

Source(g) == IF g = 1 THEN Base ELSE Ci

Ready(g, now) == IF g = 1 THEN BaseReady(now) ELSE CiReady(now)

\* A source only has to be readable and not revoked to be proposed.
baseline_propose(g, now) ==
  /\ Ask(Manager, now)
  /\ baselines[g].proposed = None /\ Current(baselines) = g - 1
  /\ run[Source(g)].receipt # None /\ ~run[Source(g)].revoked
  /\ g = 2 => run[Ci].created >= baselines[1].adopted.adopted
  /\ baselines' = [baselines EXCEPT ![g].proposed = now]
  /\ UNCHANGED <<admission, contracts, candidate, run>>

\* The lesser of two times.
Earlier(s, t) == IF s <= t THEN s ELSE t

baseline_validate(g, now) ==
  /\ Ask(Validator, now)
  /\ baselines[g].proposed # None
  /\ g = 2 => Current(baselines) = 1
  /\ Ready(g, now)
  /\ LET row == Validated(Earlier(now + BaselineLife, ValidUntil(Source(g))), now)
     IN /\ Cardinality(baselines[g].validations \cup {row}) <= MaxValidations
        /\ baselines' = [baselines EXCEPT ![g].validations = @ \cup {row}]
  /\ UNCHANGED <<admission, contracts, candidate, run>>

\* A series of which any generation was revoked adopts nothing more.
baseline_adopt(g, row, now) ==
  /\ Ask(Manager, now)
  /\ Current(baselines) = g - 1
  /\ Live(row, now) /\ Ready(g, now)
  /\ \A h \in Generations : ~baselines[h].revoked
  /\ baselines' = [baselines EXCEPT ![g].adopted =
       [at |-> row.at, expires |-> row.expires, permission |-> row.permission, adopted |-> now]]
  /\ UNCHANGED <<admission, contracts, candidate, run>>

\* baseline_revoke of the current one, baseline_revoke_ref of any.
baseline_revoke(g, now) ==
  /\ Ask(Operator, now)
  /\ baselines[g].adopted # None /\ ~baselines[g].revoked /\ Revocations < MaxRevocations
  /\ baselines' = [baselines EXCEPT ![g].revoked = TRUE]
  /\ UNCHANGED <<admission, contracts, candidate, run>>

Next ==
  \/ AdoptionNext /\ UNCHANGED chainVars
  \/ \E now \in Times :
       \/ fixture_prepare(now) \/ contract_candidate_prepare(now) \/ run_cancel(now)
       \/ \E g \in Generations :
            \/ contract_propose(g, now) \/ contract_validate(g, now)
            \/ baseline_propose(g, now) \/ baseline_validate(g, now) \/ baseline_revoke(g, now)
            \/ \E row \in baselines[g].validations : baseline_adopt(g, row, now)
       \/ \E row \in contracts[1].validations : contract_adopt(row, now)
       \/ \E row \in contracts[2].validations : contract_candidate_adopt(row, now)
       \/ \E r \in Runs :
            \/ \E created \in Times : run_begin(r, created, now)
            \/ evidence_open(r, now) \/ Perform(r, now) \/ evidence_record(r, now)
            \/ \E healthy \in BOOLEAN : evidence_finalize(r, healthy, now)
            \/ evidence_revoke(r, now)

Spec == Init /\ [][Next]_vars

-----------------------------------------------------------------------------
(* Properties.                                                              *)

\* A green answer of the CI gate rests on a whole chain of live grounds, said
\* by the times of the rows: whatever was withdrawn, was withdrawn before every
\* check and every record of the chain was made; no receipt and no baseline of
\* the chain is revoked and none of the four evidences has run out (ci_check).
GreenIsGrounded ==
  \A now \in Times :
    now >= lastClock /\ CiUse(now) =>
      /\ \A row \in revocations :
           \A at \in {validations[policyAdoptions[admission.policy].validation].observed,
                      admission.at, contracts[1].adopted.at, contracts[2].adopted.at,
                      baselines[1].adopted.at, candidate.at}
                     \cup {run[r].origin.at : r \in Runs} : row.at <= at
      /\ ~baselines[1].revoked
      /\ \A r \in Runs : run[r].healthy /\ ~run[r].revoked /\ now <= ValidUntil(r)

\* Once the receipt of the regression run exists, its answer can only turn from
\* green to red: no later adoption, validation or run makes it usable again
\* (ci_check recomputes it from rows that are pinned).
RedStaysRed ==
  [][run[Ci].receipt # None /\ lastClock >= 0 /\ ~CiUse(lastClock) => ~CiUse(lastClock)']_vars

\* The second contract is adopted on evidence and a baseline that are good at
\* that very moment, although they were checked by earlier requests as well
\* (contract_candidate_adopt between revocations).
AdoptedOnSoundEvidence ==
  [][contracts[2].adopted = None /\ contracts'[2].adopted # None =>
       /\ ~baselines[1].revoked
       /\ \A r \in Sides \cup {Base} : run[r].healthy /\ ~run[r].revoked
       /\ Current(contracts) = 1 /\ Current(baselines) = 1]_vars

\* What is written can be read again: the checks of the stored rows that fail
\* with STORAGE_CORRUPT or REGRESSION_BINDING_INVALID hold of every row that
\* the requests themselves wrote (_validation, _history, history, build).
RowsReadable ==
  /\ \A g \in Generations :
       /\ \A row \in baselines[g].validations :
            baselines[g].proposed <= row.at /\ row.at < row.expires
       /\ baselines[g].adopted # None =>
            /\ baselines[g].adopted.at <= baselines[g].adopted.adopted
            /\ baselines[g].adopted.adopted < baselines[g].adopted.expires
  /\ contracts[2].adopted # None => candidate.permission = contracts[2].adopted.permission
  /\ candidate # None => baselines[1].adopted.adopted <= candidate.at
  /\ run[Ci].phase # "absent" => run[Ci].created >= contracts[2].adopted.at
=============================================================================
