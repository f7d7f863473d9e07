SPECIFICATION Spec
CONSTANTS
  Dialogs = {d1}
  Requests = {r1, r2}
  good = good
  other = other
  gap = gap
  Files = {good, gap}
  Content <- MCContent
  HubTitle = "hub"
  Titles = {"hub", "other"}
  MaxTests = 3
  None = None
SYMMETRY Symmetry
INVARIANTS
  ImportedTestIsSound
  NoImportOfAKnownDataset
CHECK_DEADLOCK FALSE
