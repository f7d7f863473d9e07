SPECIFICATION Spec
CONSTANTS
  Assignments = {a1}
  Invitations = {i1, i2}
  Questions = {q1}
  Options = {o1}
  Requests = {p1, p2}
  Mortal = {p1, p2}
  Duration = 1
  MaxTime = 1
  Unanswered = Unanswered
  None = None
SYMMETRY Symmetry
INVARIANT
  OneOfficialAttempt
CHECK_DEADLOCK FALSE
