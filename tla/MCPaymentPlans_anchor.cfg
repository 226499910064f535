SPECIFICATION Spec
CONSTANTS
  rent = rent
  gym = gym
  c1 = c1
  c2 = c2
  r1 = r1
  r2 = r2
  NoPlan = NoPlan
  NoFrequency = NoFrequency
  Unset = Unset
  Free = Free
  PlanFrequencies <- MCMonthly
  Plan <- MCOnePlan
  Cron <- MCOneCron
  Request <- MCTwoRequests
  Today <- MCToday3
  Edits <- MCDateOrAmount
  MaxFailures = 0
CHECK_DEADLOCK FALSE
PROPERTY AnchorChangesOnlyWithDate
