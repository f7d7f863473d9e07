SPECIFICATION SignInSpec
CONSTANTS
  Requests = {p1, p2}
  Codes = {c1, c2, c3}
  RequestLimit = 2
  VerifyLimit = 3
  Window = 1
  Cooldown = 1
  Lifetime = 2
  MaxTries = 1
  MaxTime = 2
  MaxCalls = 5
  Users = {root, ann}
  SuperAdmins = {root}
  Browsers = {b1}
  Invocations = {i1, i2}
  Nobody = Nobody
SYMMETRY RequestSymmetry
INVARIANTS
  AdmissionsAreBounded
  CooldownHolds
  TriesAreBounded
  UseIsBounded
  RedirectsEnd
  LateChangesAreBounded
\* the clock, the calls and the code ids are bounded
CHECK_DEADLOCK FALSE
