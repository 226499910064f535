CONSTANTS
  User = {t, u}
  Worker = {v, w}
  Nobody = Nobody
  MaxInvitations = 2
SPECIFICATION Spec
INVARIANTS AcceptedWithMember NoDeadlock
PROPERTIES RevokedIsFinal OnlyOvertakenErr LateAdmitsNobody
SYMMETRY Symmetry
