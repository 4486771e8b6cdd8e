SPECIFICATION FairSpec
CONSTANTS
  Near = 2
  Far = 2
  Levels = 2
  Timer = {o1, o2}
  Key = {k}
  Nil = Nil
  MaxDelay = 6
  MaxId = 2
  MaxTime = 6
INVARIANTS IdOnePlace OneTimer
PROPERTIES KeepsAgenda EveryTimerFires
