SPECIFICATION Spec
CONSTANTS
  NoBlocks = 6
  BlockSize = 2
  DirSize = 3
  MaxSize = 6
  Names = {"aa", "dd"}
  NameLen <- SameLength
  Commands <- StaleRoot
INVARIANTS
  RootCacheCoherent
VIEW ReadableState
