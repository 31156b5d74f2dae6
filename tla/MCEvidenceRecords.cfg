SPECIFICATION RecordsSpec
CONSTANTS
  src = src
  fix = fix
  back = back
  Runs = {src, fix, back}
  Source = src
  Finished <- MCFinished
  Version <- MCVersion
  Freshness = 1
  Retention = 2
  PlanLife = 1
  ReviewLife = 1
  Disturbed = {fix}
  Withdrawable <- MCWithdrawable
  MaxTime = 3
  MaxGeneration = 1
  MaxHolds = 2
  MaxPlans = 1
  Nil = Nil
  Stages <- TwoStages
  Required = TRUE
  Critical = FALSE
  Forbidden = FALSE
  Deadline = 2
  MaxAge = 1
  Attempts <- Variants
  ValidUntils = {1, 2, Nil}
  Generations = {0, 1}
  ValidFor = 1
  MaxClock = 3
  MaxEvents = 1
  MaxNotices = 2
CONSTRAINTS OneStory OneReview SmallScenes
CHECK_DEADLOCK FALSE
INVARIANTS DeletionAuthorized VerifiedByNewEvidence GrantsAreCurrent DecisionsHold
PROPERTY WithdrawnForGood
