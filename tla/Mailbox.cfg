CONSTANTS
  Service = {a, b}
  Worker = {w1, w2}
  Feeder = {timer}
  None = None
  Started = {a}
  Mortal = {b}
  Priority = {a}
  MaxRounds = 1
  MaxMail = 1
SPECIFICATION FairSpec
INVARIANTS OnePlace NoLostQueue NoUseAfterFree
PROPERTIES KeepsPromise MailServed QueueFreed
