CONSTANTS
  Handle = {h1, h2}
  Name = {n1, n2, n3}
  None = None
  MaxRoles = 1
  MaxPid = 3
  MaxRequests = 3
  MaxRestarts = 2
SPECIFICATION Spec
SYMMETRY Symmetry
INVARIANTS NameClaimedOnce  RowsAgree
CHECK_DEADLOCK FALSE
