SPECIFICATION Spec
CONSTANTS
  ana = ana
  bea = bea
  cal = cal
  t1 = t1
  t2 = t2
  t3 = t3
  NoRow = NoRow
  NoRequest = NoRequest
  NoCommand = NoCommand
  User <- MCUser3
  Request <- MCRequest2
  RowId <- MCRowId4
SYMMETRY Symmetry
CHECK_DEADLOCK FALSE
INVARIANTS LockedRowsAreFresh NoWaitCycle
PROPERTIES LastOwnerLostOnlyByStaleSelf ExpelNeedsLiveRequester
