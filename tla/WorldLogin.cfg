CONSTANTS
  Pid = {p1, p2}
  Handle = {h1, h2}
  None = None
  Modules = 1
  FailChecks = 1
  PerDeal = 1
  MaxLogins = 2
SPECIFICATION Spec
SYMMETRY Symmetry
INVARIANTS  BlockAskedOnce
PROPERTIES AnsweredOnce OneSession
