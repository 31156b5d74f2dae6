------------------------- MODULE MCEvaluationChain -------------------------
(* Constants of the small chain that TLC explores, and beside it the pilots.  *)
(* The two share the clock and the withdrawals of the permission store and    *)
(* nothing else, so that one of them moves in a behaviour.  The assessments   *)
(* of a pilot share nothing with either.                                      *)
EXTENDS EvaluationChain, PilotAuthority, PilotAssessment, TLC

CONSTANTS p1, p2, v1, v2, q1, b1, b2, planA, planB, planC

\* planA and planB refer to the same bindings; planC has the id of planA and
\* does not agree with its binding.
MCDocumentId ==
  (b1 :> "b1") @@ (b2 :> "b2") @@ (planA :> "a") @@ (planB :> "b") @@ (planC :> "a")

MCBindingsOf == (planA :> {b1}) @@ (planB :> {b1, b2}) @@ (planC :> {b2})

MCPlanFrom == [plan \in Plans |-> IF plan = planB THEN 1 ELSE 0]

MCPlanTo == [plan \in Plans |-> IF plan = planA THEN 2 ELSE 4]

-----------------------------------------------------------------------------
(* The small pilot that is assessed: every threshold is as low as it can be   *)
(* and still fail for lack of rows.                                           *)

\* The digests of the rows are their numbers; the last row of either kind states
\* that of another one.
Pair(key, repository, status, missed, real, digest) ==
  [key |-> key, repository |-> repository, status |-> status, missed |-> missed,
   real |-> real, digest |-> digest]

MCPairRows ==
  {Pair(1, "r", "COMPLETE", FALSE, TRUE, 1), Pair(2, "s", "COMPLETE", FALSE, FALSE, 2),
   Pair(2, "s", "COMPLETE", TRUE, FALSE, 3), Pair(2, "s", "UNKNOWN", FALSE, FALSE, 4),
   Pair(3, "t", "COMPLETE", FALSE, FALSE, 5), Pair(3, "r", "COMPLETE", FALSE, FALSE, 6),
   Pair(2, "s", "COMPLETE", TRUE, FALSE, 2)}

Change(key, status, alert, digest) ==
  [key |-> key, status |-> status, alert |-> alert, digest |-> digest]

MCCleanRows ==
  {Change(1, "COMPLETE", "none", 1), Change(1, "COMPLETE", "action", 2),
   Change(1, "COMPLETE", "critical", 3), Change(2, "COMPLETE", "action", 4),
   Change(2, "ERROR", "none", 5), Change(1, "COMPLETE", "critical", 1)}

Case(key, category, label, prediction, status, sound) ==
  [key |-> key, category |-> category, label |-> label, prediction |-> prediction,
   status |-> status, sound |-> sound]

MCCaseRows ==
  {Case(1, "c", "positive", "detect", "COMPLETE", TRUE),
   Case(2, "c", "negative", "detect", "COMPLETE", TRUE),
   Case(2, "c", "negative", "allow", "COMPLETE", FALSE),
   Case(3, "c", "indeterminate", "allow", "COMPLETE", TRUE),
   Case(3, "d", "negative", "indeterminate", "COMPLETE", TRUE),
   Case(3, "d", "negative", "allow", "TIMEOUT", TRUE)}

Work(key, use, status, equal, gahTime, gahCost) ==
  [key |-> key, use |-> use, status |-> status, equal |-> equal,
   legacyTime |-> 10, gahTime |-> gahTime, legacyCost |-> 2, gahCost |-> gahCost]

MCWorkRows ==
  {Work(1, "UC-CI", "COMPLETE", TRUE, 6, 2), Work(1, "UC-CI", "COMPLETE", FALSE, 6, 1),
   Work(2, "UC-LLM", "COMPLETE", TRUE, 8, 1), Work(2, "UC-LLM", "MISSING", TRUE, 6, 1),
   Work(3, "UC-LLM", "COMPLETE", TRUE, 6, 3),
   [Work(3, "UC-CI", "COMPLETE", TRUE, 7, 2) EXCEPT !.legacyTime = 0]}

\* Bound: rows of each kind.
MCMaxRows == [pairs |-> 3, clean |-> 2, cases |-> 3, work |-> 3]

\* Bound: the three assessments read different rows, and one kind is observed.
OneAssessment ==
  Cardinality({observations.pairs \o observations.clean, observations.cases,
               observations.work} \ {<<>>}) <= 1

-----------------------------------------------------------------------------
(* What moves in a behaviour.                                                *)

\* Bound: p2 is the policy of the second generation and v2 its validation, and
\* of the disturbances (a withdrawal, a revocation, a second policy) one comes.
OneDisturbance ==
  /\ proposals[p2] # None => proposals[p2].expected = 1
  /\ validations[v1] # None => validations[v1].proposal = p1
  /\ validations[v2] # None => validations[v2].proposal = p2
  /\ permissionGeneration + Revocations + (IF proposals[p2] # None THEN 1 ELSE 0) <= 1

\* Bound: requests are asked under an id that is kept only while no chain has
\* begun; the requests of the chain have ids of their own.
IdsBeforeChain == admission # None => \A r \in Requests : idempotency[r] = None

\* Bound: the chain compares times with each other only, so that its first
\* proposal comes at time 0.
FirstAtZero ==
  (\E p \in Proposals : proposals[p] # None) => \E p \in Proposals : proposals[p] # None /\ proposals[p].at = 0

\* Bound: the ids of validations and adoptions of pilots are chosen by the
\* callers and mean nothing, so that they are taken in turn.
IdsInTurn ==
  /\ \A v \in PilotValidations \ {1} : pilotValidations[v] # None => pilotValidations[v - 1] # None
  /\ \A a \in PilotAdoptions \ {1} : pilotAdoptions[a] # None => pilotAdoptions[a - 1] # None

\* The two candidate runs are interchangeable.
ChainSymmetry == Permutations(Sides)

ChainScene == Next /\ UNCHANGED <<pilotVars, assessmentVars>>

PilotScene ==
  /\ UNCHANGED <<policyVars, idempotency, chainVars, assessmentVars>>
  /\ \/ PilotNext
     \/ \E now \in Times, target \in Revocable : revoke_actor(Once, target, now) /\ UNCHANGED pilotVars

ChainUntouched == policyVars = <<[p \in Proposals |-> None], [v \in Validations |-> None], None, <<>>>>
                  /\ idempotency = [r \in Requests |-> None] /\ admission = None

AssessmentScene == lastClock = -1 /\ AssessmentNext /\ UNCHANGED <<vars, pilotVars>>

StoreInit == Init /\ PilotInit /\ AssessmentInit

StoreNext ==
  \/ documents = {} /\ AssessmentInit /\ ChainScene
  \/ ChainUntouched /\ AssessmentInit /\ PilotScene
  \/ AssessmentScene

StoreSpec == StoreInit /\ [][StoreNext]_<<vars, pilotVars, assessmentVars>>
=============================================================================
