SPECIFICATION Spec
CONSTANTS
  Tabs = {t1, t2}
  QuestionIds = {q1}
  OptionIds = {o1}
  MaxQueue = 2
  MaxFaults = 1
  NONE = NONE
PROPERTIES
  SubmittedAsShown
  NoDeadEnd
  TestEnds
CHECK_DEADLOCK FALSE
