SPECIFICATION ResultsSpec
CONSTANTS
  Questions <- MCQuestions
  Options = {"x", "y"}
  Bands <- MCBands
  Decisions = {"Advanced", "Expert"}
  MaxLate = 1
  None = None
INVARIANTS
  ReportsAgree
  StrengthIsEvidenced
PROPERTIES
  LevelNeverFalls
