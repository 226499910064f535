CONSTANTS
  User = {t, u}
  Worker = {v, w}
  Nobody = Nobody
  MaxInvitations = 1
SPECIFICATION Spec
PROPERTIES AcceptedIsFinal
