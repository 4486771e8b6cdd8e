CONSTANTS
  Pid = {p1, p2}
  Handle = {h1, h2}
  None = None
  Limits = {0, 2}
  QueueCnt = 1
  KeepChecks = 0
  MaxNumber = 1
  LoginQueueLimit = 1
  WaitPushNum = 2
  OpenStatus = {3}
  MaxLogins = 2
SPECIFICATION Spec
SYMMETRY Symmetry
INVARIANTS LoginCntCovers  SlotHeld SlotReturned
