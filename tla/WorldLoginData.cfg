CONSTANTS
  Pid = {p1}
  Handle = {h1, h2}
  None = None
  Modules = 2
  FailChecks = 1
  PerDeal = 1
  MaxLogins = 2
SPECIFICATION Spec
INVARIANTS AllDataWritten
