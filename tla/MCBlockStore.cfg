SPECIFICATION FairSpec
CONSTANTS
  NoBlocks = 5
  Entries = {e1, e2, e3}
  MaxPieces = 2
CONSTRAINT WhileIntact
INVARIANTS
  TypeOK
  NothingDangles
  ReferredOnce
  LoopBlockOwned
PROPERTIES
  CommandsEnd
