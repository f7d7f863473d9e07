SPECIFICATION Spec
CONSTANTS
  Requests = {p1, p2}
  Candidates = {c1, c2}
  Assignments = {a1, a2, a3}
  Invitations = {i1, i2, i3}
  FreeAttempts = 1
  MaxDeaths = 1
  MaxInterventions = 2
  None = None
SYMMETRY Symmetry
INVARIANTS
  OneCandidate
  OneActiveAssignment
  OverrunIsBounded
  OrphansHaveACause
  NobodyIsLockedOut
CHECK_DEADLOCK FALSE
