SPECIFICATION FairSpec
CONSTANTS
  rent = rent
  gym = gym
  c1 = c1
  c2 = c2
  r1 = r1
  r2 = r2
  NoPlan = NoPlan
  NoFrequency = NoFrequency
  Unset = Unset
  Free = Free
  PlanFrequencies <- MCMonthly
  Plan <- MCTwoPlans
  Cron <- MCOneCron
  Request <- MCNoRequest
  Today <- MCToday2
  Edits <- MCNoEdits
  MaxFailures = 1
CHECK_DEADLOCK FALSE
PROPERTY DueIsPosted
