SPECIFICATION MCSpec
CONSTANTS
  Worker = {w1, w2}
  Amount = {1, 2}
  LastDay = 3
  MaxRows = 2
  Category <- Categories
  GroupOf <- Groups
  Account <- Accounts
  Currency = {eur, usd, blank}
  Default = eur
  Blank = blank
  User <- Users
  Email <- Emails
  Password <- Passwords
  Holding = {bank, savings}
  Spendable = {bank}
  Plan <- Plans
  Income = {salary}
  Transfer <- Transfers
  HoldingTo <- Targets
  HoldingOf <- Holdings
  PlanAmount <- Amounts
  PlanPeriod <- Periods
  FirstDue = {0, 1}
  LastOverview = 2
  MaxEdits = 1
  Transaction <- Transactions
  Date = {1, 2, 3}
  Limit = 1
  MaxWrites = 2
  FirstDates <- MonthEnds
  PlanFrequencies <- Frequencies
  MaxOccurrences = 14
  None = None
  a = a
  b = b
  c = c
  other = other
  eur = eur
  usd = usd
  blank = blank
  salary = salary
  rent = rent
  gym = gym
  save = save
  refill = refill
  bank = bank
  savings = savings
SYMMETRY Symmetry
CHECK_DEADLOCK FALSE
INVARIANTS DomainTypesOK NoOverlap SameFigures MixedForCause OneUserPerEmail AnswerAddsUp PromiseKept PagesForCause DueOnSchedule
PROPERTIES EarlierDaysKept TakesHold ConflictForCause LevelsForCause ChangedByItsKnower OverlookedNotDoubled
