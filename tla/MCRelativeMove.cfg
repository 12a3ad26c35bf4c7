SPECIFICATION Spec
CONSTANTS
  NoBlocks = 6
  BlockSize = 2
  DirSize = 3
  MaxSize = 6
  Names = {"aa", "dd", "ee"}
  NameLen <- SameLength
  Commands <- RelativeMove
PROPERTIES
  DoesWhatItSays
VIEW ReadableState
