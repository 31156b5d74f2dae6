SPECIFICATION StoreSpec
CONSTANTS
  p1 = p1  p2 = p2  v1 = v1  v2 = v2
  q1 = q1  None = None
  b1 = b1  b2 = b2  planA = planA  planB = planB  planC = planC
  Bindings = {b1, b2}
  Plans = {planA, planB, planC}
  FittingPlans = {planA, planB}
  DocumentId <- MCDocumentId
  BindingsOf <- MCBindingsOf
  PlanFrom <- MCPlanFrom
  PlanTo <- MCPlanTo
  PilotValidations = {1, 2, 3}
  PilotAdoptions = {1, 2, 3}
  PilotLimit = 2
  Proposals = {p1, p2}
  Validations = {v1, v2}
  Requests = {q1}
  Sides = {old, new}
  Revocable = {"candidate", "validator"}
  ValidationTtl = 2
  Freshness = 2
  BaselineLife = 2
  RunLife = 1
  MaxTime = 2
  MaxPermission = 1
  MaxPolicies = 2
  MaxValidations = 1
  MaxRevocations = 2
  PairRows <- MCPairRows
  CleanRows <- MCCleanRows
  CaseRows <- MCCaseRows
  WorkRows <- MCWorkRows
  MaxRows <- MCMaxRows
  Categories = {"c"}
  MinPairs = 2
  MinPerRepository = 1
  MinClean = 1
  MaxFalseAlerts = 1
  MinLabel = 1
  MinPerCategory = 1
  ExactWork = 2
  MinPerUse = 1
SYMMETRY ChainSymmetry
CONSTRAINTS OneDisturbance IdsBeforeChain OneAssessment IdsInTurn FirstAtZero
CHECK_DEADLOCK FALSE
INVARIANTS GreenIsGrounded RowsReadable AdoptionHolds PilotHolds 
PROPERTIES RedStaysRed AdoptedOnSoundEvidence
