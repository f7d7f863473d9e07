SPECIFICATION Spec
CONSTANTS
  Assignments = {a1}
  Invitations = {i1, i2, i3}
  Questions = {q1}
  Options = {o1}
  Requests = {p1}
  Mortal = {p1}
  Duration = 1
  MaxTime = 2
  Unanswered = Unanswered
  None = None
SYMMETRY Symmetry
INVARIANTS
  ResultReflectsAnswers
  ClosedMeansUsed
  CompletedHasNoLiveLink
CHECK_DEADLOCK FALSE
