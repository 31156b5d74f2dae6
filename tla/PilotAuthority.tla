--------------------------- MODULE PilotAuthority ---------------------------
(***************************************************************************)
(* pilot_authority.py: the metadata of pilots in the permission store.  A  *)
(* manager registers bindings and plans over them, the validator validates *)
(* a plan, the manager adopts it on that validation, and anybody asks      *)
(* whether a plan is adopted and valid now.  The store, its clock and its  *)
(* withdrawals are those of Adoption.                                      *)
(*                                                                         *)
(* Each request is one transaction under an id of its own; an exact repeat *)
(* is answered from the store and is not a step.  A document is abstracted *)
(* to its identity: the documents of one id differ in their digests.       *)
(***************************************************************************)
EXTENDS Adoption, FiniteSets, FiniteSetsExt

CONSTANTS
  Bindings, Plans,     \* the documents that may be registered
  DocumentId,          \* the id a document carries
  BindingsOf,          \* the bindings a plan refers to
  FittingPlans,        \* the plans that agree with their bindings
  PlanFrom, PlanTo,    \* the time a plan is for
  PilotValidations, PilotAdoptions,  \* the ids that clients choose
  PilotLimit           \* the 1000 adoptions that _current_adoptions reads

ASSUME PilotAssumption ==
  /\ PilotLimit \in Nat \ {0}
  /\ None \notin PilotValidations \cup PilotAdoptions
  /\ \A plan \in Plans :
       /\ BindingsOf[plan] \subseteq Bindings
       /\ PlanFrom[plan] \in Nat /\ PlanTo[plan] \in Nat /\ PlanFrom[plan] < PlanTo[plan]

VARIABLES
  documents,         \* authority_artifacts: the registered bindings and plans
  pilotValidations,  \* id -> None or the receipt
  pilotAdoptions     \* id -> None or the receipt

pilotVars == <<documents, pilotValidations, pilotAdoptions>>

PilotInit ==
  /\ documents = {}
  /\ pilotValidations = [v \in PilotValidations |-> None]
  /\ pilotAdoptions = [a \in PilotAdoptions |-> None]

-----------------------------------------------------------------------------
(* What the handlers read.                                                  *)

\* _local_bindings.
LocalBindings(plan) == BindingsOf[plan] \subseteq documents /\ plan \in FittingPlans

Running(plan, now) == PlanFrom[plan] <= now /\ now < PlanTo[plan]

\* The receipts that are stored.
Stored(receipts) == {receipts[id] : id \in {i \in DOMAIN receipts : receipts[i] # None}}

\* _current_adoptions reads the adoptions of every plan and gives up when
\* there are more than it expects.
AdoptionsReadable == Cardinality({a \in PilotAdoptions : pilotAdoptions[a] # None}) <= PilotLimit

AdoptionsOf(plan) == {row \in Stored(pilotAdoptions) : row.plan = plan}

\* _generation.
PilotGeneration(plan) == Max({0} \cup {row.generation : row \in AdoptionsOf(plan)})

-----------------------------------------------------------------------------
(* Requests.                                                                *)

\* A request of a pilot: its actor still has its role, its id is new.
PilotAsk(actor, now) ==
  /\ ~ActorRevoked(actor) /\ Now(now)
  /\ UNCHANGED <<permissionGeneration, revocations>>

\* _register.  The same document again changes nothing; another one under a
\* stored id is refused.
pilot_register(document, now) ==
  /\ PilotAsk(Manager, now)
  /\ document \in Plans => LocalBindings(document)
  /\ \A other \in documents : DocumentId[other] = DocumentId[document] => other = document
  /\ documents' = documents \cup {document}
  /\ UNCHANGED <<pilotValidations, pilotAdoptions>>

\* _validate_plan.  A stored validation holds its whole request, so that a
\* second request under its id is refused.
pilot_plan_validate(v, plan, now) ==
  /\ PilotAsk(Validator, now)
  /\ plan \in documents /\ Running(plan, now) /\ LocalBindings(plan)
  /\ AdoptionsReadable /\ pilotValidations[v] = None
  /\ pilotValidations' = [pilotValidations EXCEPT ![v] =
       [plan |-> plan, expected |-> PilotGeneration(plan), at |-> now,
        expires |-> Min({PlanTo[plan], now + ValidationTtl}), permission |-> permissionGeneration]]
  /\ UNCHANGED <<documents, pilotAdoptions>>

\* Mutant of Confirmed: a validation counts until it expires.
ConfirmedUntilExpiry(v, plan, now) ==
  /\ pilotValidations[v] # None
  /\ LET row == pilotValidations[v]
     IN /\ row.plan = plan /\ row.expected = PilotGeneration(plan)
        /\ row.at <= now /\ now < row.expires
  /\ ~ActorRevoked(Validator)

\* What _adopt_plan demands of the validation it is shown.
Confirmed(v, plan, now) ==
  /\ pilotValidations[v] # None
  /\ LET row == pilotValidations[v]
     IN /\ row.plan = plan /\ row.expected = PilotGeneration(plan)
        /\ row.at <= now /\ now < row.expires
        /\ row.permission = permissionGeneration
  /\ ~ActorRevoked(Validator)

pilot_plan_adopt(a, v, plan, now) ==
  /\ PilotAsk(Manager, now)
  /\ plan \in documents /\ Running(plan, now) /\ LocalBindings(plan)
  /\ AdoptionsReadable /\ pilotAdoptions[a] = None
  /\ Confirmed(v, plan, now)
  /\ pilotAdoptions' = [pilotAdoptions EXCEPT ![a] =
       [plan |-> plan, validation |-> v, generation |-> PilotGeneration(plan) + 1, at |-> now,
        expires |-> Min({PlanTo[plan], pilotValidations[v].expires}),
        permission |-> permissionGeneration]]
  /\ UNCHANGED <<documents, pilotValidations>>

\* _current: the answer "valid" about the last adoption of the plan.
PilotValid(plan, now) ==
  /\ plan \in documents /\ AdoptionsReadable /\ AdoptionsOf(plan) # {}
  /\ LET row == CHOOSE r \in AdoptionsOf(plan) : r.generation = PilotGeneration(plan)
         validation == pilotValidations[row.validation]
     IN /\ Running(plan, now)
        /\ row.at <= now /\ now < row.expires
        /\ validation.at <= now /\ now < validation.expires
        /\ row.permission = permissionGeneration /\ validation.permission = permissionGeneration
  /\ ~ActorRevoked(Manager) /\ ~ActorRevoked(Validator)

\* pilot_plan_current answers anew each time; only the clock is written.
pilot_plan_current(plan, now) ==
  /\ \E actor \in {Manager, Validator, Operator} : ~ActorRevoked(actor)
  /\ plan \in documents /\ AdoptionsReadable
  /\ Now(now)
  /\ UNCHANGED <<permissionGeneration, revocations, pilotVars>>

PilotNext ==
  \E now \in Times :
    \/ \E document \in Bindings \cup Plans : pilot_register(document, now)
    \/ \E plan \in Plans :
         \/ pilot_plan_current(plan, now)
         \/ \E v \in PilotValidations :
              \/ pilot_plan_validate(v, plan, now)
              \/ \E a \in PilotAdoptions : pilot_plan_adopt(a, v, plan, now)

\* The permission store with the requests about policies and about pilots.
PilotSpec ==
  /\ AdoptionInit /\ PilotInit
  /\ [][\/ PilotNext /\ UNCHANGED <<policyVars, idempotency>>
        \/ AdoptionNext /\ UNCHANGED pilotVars]_<<adoptionVars, pilotVars>>

-----------------------------------------------------------------------------
(* Properties.                                                              *)

\* The adoptions of a plan are numbered from one without a gap or a tie, each
\* on a validation of its own, although any two requests may race for the next
\* number (_generation and expected_generation).
PilotsAreChains ==
  \A plan \in Plans :
    /\ {row.generation : row \in AdoptionsOf(plan)} = 1 .. Cardinality(AdoptionsOf(plan))
    /\ \A r, s \in AdoptionsOf(plan) : r.validation = s.validation => r = s

\* A withdrawal that is older than an adoption is one its validation was made
\* under, and no receipt outlives the plan or the validation (_adopt_plan).
PilotsInOrder ==
  \A row \in Stored(pilotAdoptions) :
    LET v == pilotValidations[row.validation]
    IN /\ v.plan = row.plan /\ v.at <= row.at /\ row.at < v.expires
       /\ row.expires <= v.expires /\ row.expires <= PlanTo[row.plan]
       /\ \A w \in revocations : w.at < row.at => w.generation <= v.permission

\* A plan that is called valid was confirmed, not longer than the life of a
\* validation ago and by both roles, after everything that was ever withdrawn,
\* and its bindings are registered (_current, which reads five rows written by
\* different requests).
PilotsGrounded ==
  \A plan \in {row.plan : row \in Stored(pilotAdoptions)}, now \in Times :
    now >= lastClock /\ PilotValid(plan, now) =>
      /\ BindingsOf[plan] \subseteq documents
      /\ \E row \in AdoptionsOf(plan) :
           LET v == pilotValidations[row.validation]
           IN /\ now < v.at + ValidationTtl
              /\ \A w \in revocations :
                   /\ w.generation <= v.permission
                   /\ w.entity = "actor" => w.id \notin {Manager, Validator}

\* What the users of a pilot's metadata rely on.
PilotHolds == PilotsAreChains /\ PilotsInOrder /\ PilotsGrounded
=============================================================================
