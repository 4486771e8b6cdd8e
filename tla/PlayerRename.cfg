CONSTANTS
  Player = {p1, p2}
  Name = {A, B, C}
  None = None
  HighGrade = {p1}
  CardOwner = {p2}
  Rich = {p1}
  Price = 1
  RplCoins = 1
  GoldCoins = 1
  MaxRequests = 2
  MaxRestarts = 1
SPECIFICATION Spec
SYMMETRY Symmetry
INVARIANTS NameKept NameUsed FrozenReturned NoDebt FreeOnce
