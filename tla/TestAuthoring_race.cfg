SPECIFICATION Spec
CONSTANTS
  Admins = {p1, p2}
  Tests = {t1, t2}
  Questions = {q1, q2}
  Durations = {30}
  OptionPositions = {1, 2}
  MaxEdits = 3
  None = None
SYMMETRY Symmetry
INVARIANTS
  OneCorrectOption
  OrdersDiffer
  AnswersKeepTheirQuestion
  LateWritesAreBounded
  DraftIsUnattempted
CHECK_DEADLOCK FALSE
