SPECIFICATION Spec
CONSTANTS
  Token = {t1, t2, t3}
  NoToken = NoToken
  Worker = {w1, w2, w3}
SYMMETRY Symmetry
INVARIANT RotationKeepsSession
PROPERTIES IsTokenChain RefusedForCause
