SPECIFICATION Spec
CONSTANTS
  NoBlocks = 4
  BlockSize = 2
  DirSize = 3
  MaxSize = 4
  Names = {"aa", "dd"}
  NameLen <- SameLength
  Commands <- DirectoryCommands
INVARIANTS
  RootCacheCoherent
  TreeWellFormed
  PathsResolve
  RightsCoherent
  PwdLeadsBack
  NoBlockLeaks
PROPERTIES
  KeepsItsPromise
VIEW ReadableState
