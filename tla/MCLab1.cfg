SPECIFICATION Lab1Spec
CONSTANTS
  BUFFER_SIZE = 3
  Last = 8
  nThreads = 3
  Transactions = 2
  Amount = 100
  PROFESSORS = 3
  Meals = 2
  Turns = 3
  MaxKills = 2
  Messages = 3
  Limit = 2
  Receivers = {r1, r2}
  SIZE = 4
  THREADS = 2
  MAX_ITEMS = 4
  Numbers = {1, 2, 3}
INVARIANTS
  TypesOK
  Exclusive
  NoUpdateLost
  SeatsCounted
  TokensKept
  ProductRight
  NoRaces
  PartitionInvariant
  SortsIt
PROPERTIES
  DeliversInOrder
  TakesTurns
  TurnsEnd
  DeliversMessages
  ReceiversEnd
  BothEnd
  BankEnds
  DiningEnds
  ComputationsEnd
