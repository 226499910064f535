CONSTANTS
  Account = {a, b}
  Row = {r, s, t, q}
  Worker = {v, w}
  Magnitude = {1, 2}
  MaxBalance = 3
  Openings <- MCOpenings
  NoEntry = NoEntry
  NoRow = NoRow
  Unset = Unset
  Untouched = Untouched
SPECIFICATION Spec
SYMMETRY Symmetry
INVARIANTS TypeOK BalanceIsSum PairsMirrored OnlyTransfersDeadlock
PROPERTIES IsAtomic EachCommitBalances
CHECK_DEADLOCK FALSE
CONSTRAINT FewOrSmall
