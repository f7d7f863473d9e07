SPECIFICATION Spec
CONSTANTS
  Requests = {p1, p2}
  BandIds = {b1, b2, b3}
  r1 = r1
  r2 = r2
  Results = {r1, r2}
  RawScore <- MCRawScore
  Total = 20
  Institutional <- MCInstitutional
  FormInputs <- MCFormInputs
  None = None
SYMMETRY Symmetry
INVARIANTS
  BandIsMatchable
  LevelIsJustified
  AppliedMeansLevelled
CHECK_DEADLOCK FALSE
