SPECIFICATION Spec
CONSTANTS
  a = a
  b = b
  c = c
  other = other
  Category = {a, b, c, other}
  NoParent = NoParent
  Worker = {w1, w2}
  GroupOf <- Groups
SYMMETRY Symmetry

INVARIANT TwoLevels
