SPECIFICATION Spec
CONSTANTS
  Tabs = {t1, t2}
  Emails = {e1, e2}
  Assignments = {s1, s2}
  Links = {i1, i2}
  FreeAttempts = 2
  MaxQueue = 1
  MaxOutside = 1
  None = None
SYMMETRY TrySymmetry
INVARIANTS
  OnlyALossStrands
  AnswersAreOwn
