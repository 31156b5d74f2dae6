------------------------------ MODULE Adoption ------------------------------
(***************************************************************************)
(* The permission store, adoption.py: policies are proposed by a manager,  *)
(* validated by a validator and adopted by the manager, one generation     *)
(* after the other; an operator withdraws actors and validations.  Every   *)
(* request is one database transaction (dispatch), with the time it reads  *)
(* from a clock that may jump both ways.                                   *)
(*                                                                         *)
(* An answer is stored under the id of its request and returned to an      *)
(* identical request.  Only the ids in Requests are ever used again; Once  *)
(* stands for the ids that are not.  A refused request is rolled back and  *)
(* is not a step, and neither is a replay, which changes nothing.          *)
(***************************************************************************)
EXTENDS Integers, Sequences

CONSTANTS
  Proposals, Validations,  \* the ids that clients choose
  Requests,                \* the request ids that may come twice
  Revocable,               \* bound: the actors that may be withdrawn
  ValidationTtl,           \* VALIDATION_TTL
  MaxTime,                 \* bound: the last time a clock may show
  MaxPermission,           \* bound: withdrawals
  MaxPolicies,             \* bound: adopted policy generations
  None

ASSUME AdoptionAssumption ==
  /\ ValidationTtl \in Nat \ {0} /\ MaxTime \in Nat
  /\ MaxPermission \in Nat /\ MaxPolicies \in Nat
  /\ None \notin Proposals \cup Validations
  /\ Revocable \subseteq {"manager", "validator", "operator", "candidate"}

VARIABLES
  lastClock,             \* adoption_meta: last_clock
  permissionGeneration,  \* adoption_meta: permission_generation
  revocations,           \* rows [entity, id, generation, at]
  proposals,             \* id -> None or row
  validations,           \* id -> None or row
  currentProfile,        \* the series' row of current_profiles, or None
  policyAdoptions,       \* the rows of policy_adoptions, by generation
  idempotency            \* request id -> None or [action, answer]

permissionVars == <<lastClock, permissionGeneration, revocations>>
policyVars == <<proposals, validations, currentProfile, policyAdoptions>>
adoptionVars == <<permissionVars, policyVars, idempotency>>

Manager == "manager"
Validator == "validator"
Operator == "operator"
Times == 0 .. MaxTime
Once == "once"
Ids == Requests \cup {Once}

\* The rows of policy_adoptions; None stands for the absence of a row.
PolicyRows ==
  [generation : 1 .. MaxPolicies, proposal : Proposals, validation : Validations, at : Times]

ASSUME AbsenceAssumption == None \notin PolicyRows

AdoptionInit ==
  /\ lastClock = -1 /\ permissionGeneration = 0 /\ revocations = {}
  /\ proposals = [p \in Proposals |-> None]
  /\ validations = [v \in Validations |-> None]
  /\ currentProfile = None /\ policyAdoptions = <<>>
  /\ idempotency = [r \in Requests |-> None]

-----------------------------------------------------------------------------
(* dispatch: who may ask, the clock, the stored answers.                    *)

Withdrawn(entity, id) ==
  \E row \in revocations : row.entity = entity /\ row.id = id

ActorRevoked(actor) == Withdrawn("actor", actor)
ValidationRevoked(v) == Withdrawn("validation", v)

\* _now refuses a clock that went back; a refused request leaves no trace of
\* the time it read.
Now(now) == now >= lastClock /\ lastClock' = now

\* What every handler is wrapped in: the request is not answered yet.
Dispatch(actor, r, now) ==
  /\ ~ActorRevoked(actor)
  /\ r \in Requests => idempotency[r] = None
  /\ Now(now)

\* _store_result.  current stores NULL in the place of its answer; of the
\* answers only those that a receipt can show are kept.
StoreResult(r, action, answer) ==
  idempotency' = IF r = Once THEN idempotency
                 ELSE [idempotency EXCEPT ![r] = [action |-> action, answer |-> answer]]

-----------------------------------------------------------------------------
(* Policies.                                                                *)

\* _current_generation.
PolicyGeneration == IF currentProfile = None THEN 0 ELSE currentProfile.generation

\* The same proposal under its id again is answered from the stored row.
propose(r, p, now) ==
  /\ Dispatch(Manager, r, now)
  /\ proposals[p] # None => proposals[p].expected = PolicyGeneration
  /\ proposals' = IF proposals[p] # None THEN proposals
                  ELSE [proposals EXCEPT ![p] = [expected |-> PolicyGeneration, at |-> now]]
  /\ StoreResult(r, "other", None)
  /\ UNCHANGED <<permissionGeneration, revocations, validations, currentProfile, policyAdoptions>>

\* A validation that exists is answered as passed, even if it has expired or
\* was revoked.
validate(r, v, p, now) ==
  /\ Dispatch(Validator, r, now)
  /\ proposals[p] # None
  /\ validations[v] # None => validations[v].proposal = p
  /\ validations' = IF validations[v] # None THEN validations
                    ELSE [validations EXCEPT ![v] =
                            [proposal |-> p, expected |-> proposals[p].expected,
                             observed |-> now, expires |-> now + ValidationTtl,
                             permission |-> permissionGeneration]]
  /\ StoreResult(r, "other", None)
  /\ UNCHANGED <<permissionGeneration, revocations, proposals, currentProfile, policyAdoptions>>

\* Mutant of Standing: a withdrawal ends only what it names.
StandingUnlessNamed(v, now) ==
  ~ValidationRevoked(v) /\ ~ActorRevoked(Validator) /\ now < validations[v].expires

\* Whether a validation still counts: adopted or not, now and under the
\* present permissions.
Standing(v, now) ==
  /\ ~ValidationRevoked(v) /\ ~ActorRevoked(Validator)
  /\ validations[v].permission = permissionGeneration
  /\ now < validations[v].expires

adopt(r, p, v, now) ==
  /\ Dispatch(Manager, r, now)
  /\ proposals[p] # None /\ validations[v] # None
  /\ proposals[p].expected = PolicyGeneration
  /\ validations[v].expected = PolicyGeneration /\ validations[v].proposal = p
  /\ Standing(v, now)
  /\ PolicyGeneration < MaxPolicies
  /\ LET row == [generation |-> PolicyGeneration + 1, proposal |-> p,
                 validation |-> v, at |-> now]
     IN /\ currentProfile' = row
        /\ policyAdoptions' = Append(policyAdoptions, row)
        /\ StoreResult(r, "adopt", row)
  /\ UNCHANGED <<permissionGeneration, revocations, proposals, validations>>

\* The part of _current that says whether the adopted policy is in force.
CurrentValid(now) ==
  /\ currentProfile # None
  /\ validations[currentProfile.validation].proposal = currentProfile.proposal
  /\ Standing(currentProfile.validation, now)
  /\ ~ActorRevoked(Manager)

\* _policy_at: the same of a generation of the history.
PolicyAtValid(generation, now) ==
  /\ generation \in DOMAIN policyAdoptions
  /\ LET row == policyAdoptions[generation]
         validation == validations[row.validation]
     IN /\ validation.proposal = row.proposal
        /\ validation.expected = generation - 1
        /\ now < validation.expires
        /\ validation.permission = permissionGeneration
        /\ ~ValidationRevoked(row.validation)
        /\ ~ActorRevoked(Validator) /\ ~ActorRevoked(Manager)

\* current computes its answer each time, and marks its id as used.
current(r, now) ==
  /\ \E actor \in {Manager, Validator, Operator} : ~ActorRevoked(actor)
  /\ r \in Requests /\ idempotency[r] # None => idempotency[r].action = "current"
  /\ Now(now)
  /\ StoreResult(r, "current", None)
  /\ UNCHANGED <<permissionGeneration, revocations, policyVars>>

\* The receipt of an adoption is its stored answer.
receipt(r, adoption, now) ==
  /\ \E actor \in {Manager, Validator, Operator} : ~ActorRevoked(actor)
  /\ r \in Requests => idempotency[r] = None
  /\ Now(now)
  /\ idempotency[adoption] # None /\ idempotency[adoption].action = "adopt"
  /\ StoreResult(r, "receipt", idempotency[adoption].answer)
  /\ UNCHANGED <<permissionGeneration, revocations, policyVars>>

-----------------------------------------------------------------------------
(* Withdrawals.  Each one starts a new generation of permissions.           *)

Withdraw(entity, id, now) ==
  /\ ~Withdrawn(entity, id)
  /\ permissionGeneration < MaxPermission
  /\ permissionGeneration' = permissionGeneration + 1
  /\ revocations' = revocations \cup
       {[entity |-> entity, id |-> id, generation |-> permissionGeneration + 1, at |-> now]}

revoke_actor(r, target, now) ==
  /\ Dispatch(Operator, r, now)
  /\ Withdraw("actor", target, now)
  /\ StoreResult(r, "other", None)
  /\ UNCHANGED policyVars

revoke_validation(r, v, now) ==
  /\ Dispatch(Operator, r, now)
  /\ validations[v] # None
  /\ Withdraw("validation", v, now)
  /\ StoreResult(r, "other", None)
  /\ UNCHANGED policyVars

AdoptionNext ==
  \E r \in Ids, now \in Times :
    \/ current(r, now)
    \/ \E adoption \in Requests : receipt(r, adoption, now)
    \/ \E p \in Proposals :
         propose(r, p, now) \/ \E v \in Validations : validate(r, v, p, now) \/ adopt(r, p, v, now)
    \/ \E v \in Validations : revoke_validation(r, v, now)
    \/ \E target \in Revocable : revoke_actor(r, target, now)

AdoptionSpec == AdoptionInit /\ [][AdoptionNext]_adoptionVars

-----------------------------------------------------------------------------
(* Properties.                                                              *)

\* Type correctness of the tables.
AdoptionTypeOK ==
  /\ lastClock \in Times \cup {-1} /\ permissionGeneration \in 0 .. MaxPermission
  /\ \A row \in revocations :
       row.entity \in {"actor", "validation"} /\ row.generation \in 1 .. MaxPermission
       /\ row.at \in Times
  /\ proposals \in [Proposals -> {None} \cup [expected : 0 .. MaxPolicies, at : Times]]
  /\ validations \in
       [Validations -> {None} \cup
          [proposal : Proposals, expected : 0 .. MaxPolicies, observed : Times,
           expires : Nat, permission : 0 .. MaxPermission]]
  /\ policyAdoptions \in Seq(PolicyRows)
  /\ idempotency \in
       [Requests -> {None} \cup
          [action : {"other", "adopt", "current", "receipt"}, answer : {None} \cup PolicyRows]]

\* The current policy is the last one of the history, the history has no gap,
\* and no proposal and no validation is adopted twice, whatever requests race
\* for a generation (the compare-and-set of _adopt and its two tables).
HistoryIsChain ==
  /\ currentProfile = (IF policyAdoptions = <<>> THEN None
                       ELSE policyAdoptions[Len(policyAdoptions)])
  /\ \A i \in DOMAIN policyAdoptions :
       /\ policyAdoptions[i].generation = i
       /\ \A j \in 1 .. i - 1 :
            /\ policyAdoptions[i].proposal # policyAdoptions[j].proposal
            /\ policyAdoptions[i].validation # policyAdoptions[j].validation

\* What was validated before a withdrawal is never adopted after it, whoever
\* or whatever was withdrawn: a withdrawal that is older than the adoption is
\* one the validation was made under (permission_generation in _adopt).
NoAdoptionAcrossWithdrawal ==
  \A a \in {policyAdoptions[i] : i \in DOMAIN policyAdoptions}, row \in revocations :
    row.at < a.at => row.generation <= validations[a.validation].permission

\* The recorded story is in order although the clock may jump back between two
\* requests: proposed, validated, adopted before the validation expired, and
\* one generation after the other (_now and last_clock).
StoryInOrder ==
  \A i \in DOMAIN policyAdoptions :
    LET a == policyAdoptions[i]
        v == validations[a.validation]
    IN /\ proposals[a.proposal].at <= v.observed
       /\ v.observed <= a.at /\ a.at < v.expires
       /\ i > 1 => policyAdoptions[i - 1].at <= a.at

\* The two separate checks of a policy agree: what current calls valid is what
\* a run that pinned this generation may rely on (_current and _policy_at).
ChecksAgree ==
  currentProfile # None =>
    \A now \in lastClock .. MaxTime :
      CurrentValid(now) <=> PolicyAtValid(currentProfile.generation, now)

\* A stored answer may be old, and a receipt shows it at any time: it always
\* tells an adoption that took place, exactly as the history has it (_receipt).
StoredAnswersAreHistory ==
  \A r \in Requests :
    idempotency[r] # None /\ idempotency[r].action \in {"adopt", "receipt"} =>
      LET row == idempotency[r].answer
      IN row.generation \in DOMAIN policyAdoptions /\ policyAdoptions[row.generation] = row

\* The adoption of policies as its readers rely on it: whatever is requested,
\* withdrawn or asked again in which order, the history is a chain of adoptions
\* made in order under standing validations, and every answer tells it.
AdoptionHolds ==
  /\ AdoptionTypeOK /\ HistoryIsChain /\ NoAdoptionAcrossWithdrawal
  /\ StoryInOrder /\ ChecksAgree /\ StoredAnswersAreHistory
=============================================================================
