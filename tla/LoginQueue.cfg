CONSTANTS
  Pid = {p1, p2, p3}
  Handle = {h1, h2}
  None = None
  Limits = {0, 1, 2}
  QueueCnt = 1
  KeepChecks = 2
  MaxNumber = 5
SPECIFICATION FairSpec
INVARIANTS TablesAgree OnePlace NoIdleSlot
PROPERTIES AdmitsWithinLimit FirstComeFirstCalled LineMoves
