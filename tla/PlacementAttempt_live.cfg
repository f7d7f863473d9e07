SPECIFICATION FairSpec
CONSTANTS
  Assignments = {a1}
  Invitations = {i1}
  Questions = {q1}
  Options = {}
  Requests = {p1, p2}
  Mortal = {p2}
  Duration = 1
  MaxTime = 1
  Unanswered = Unanswered
  None = None
PROPERTIES
  StudentRequestEnds
  OverdueIsClosed
CHECK_DEADLOCK FALSE
