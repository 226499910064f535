CONSTANTS
  Account = {a, b}
  Row = {r, s}
  Worker = {v, w}
  Magnitude = {1}
  MaxBalance = 3
  Openings <- MCOpenings
  NoEntry = NoEntry
  NoRow = NoRow
  Unset = Unset
  Untouched = Untouched
SPECIFICATION FairSpec
PROPERTIES RequestsEnd
CHECK_DEADLOCK FALSE
