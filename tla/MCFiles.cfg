SPECIFICATION Spec
CONSTANTS
  NoBlocks = 5
  BlockSize = 4
  DirSize = 3
  MaxSize = 9
  Names = {"aa", "bb", "cc"}
  NameLen <- SameLength
  Commands <- FileCommands
INVARIANTS
  TypeOK
  BlocksOwnedOnce
PROPERTIES
  LosesOnlyWhenFull
  ContentsKept
VIEW ReadableState
