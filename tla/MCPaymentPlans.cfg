SPECIFICATION Spec
CONSTANTS
  rent = rent
  gym = gym
  c1 = c1
  c2 = c2
  r1 = r1
  r2 = r2
  NoPlan = NoPlan
  NoFrequency = NoFrequency
  Unset = Unset
  Free = Free
  PlanFrequencies <- MCMonthly
  Plan <- MCOnePlan
  Cron <- MCTwoCrons
  Request <- MCOneRequest
  Today <- MCToday3
  Edits <- MCEdits
  MaxFailures = 1
CHECK_DEADLOCK FALSE
SYMMETRY CronSymmetry
INVARIANTS AtMostOnce UneditedIsExact
PROPERTIES RefusedOnlyIfEdited PostsWhatIsDue ArchivedIsNotPosted
