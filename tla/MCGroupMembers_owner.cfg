SPECIFICATION Spec
CONSTANTS
  ana = ana
  bea = bea
  cal = cal
  t1 = t1
  t2 = t2
  t3 = t3
  NoRow = NoRow
  NoRequest = NoRequest
  NoCommand = NoCommand
  User <- MCUser2
  Request <- MCRequest2
  RowId <- MCRowId3
CHECK_DEADLOCK FALSE
INVARIANT GroupAlwaysHasOwner
