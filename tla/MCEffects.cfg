SPECIFICATION EffectsSpec
CONSTANTS
  NoBlocks = 12
  BlockSize = 4
  DirSize = 3
  MaxSize = 7
  Names = {"aa", "bb", "cc", "dd", "ee"}
  NameLen <- SameLength
  Commands <- AllCommands
PROPERTIES
  DoesOrRefuses
VIEW EffectsView
