SPECIFICATION Spec
CONSTANTS
  NoBlocks = 6
  BlockSize = 2
  DirSize = 3
  MaxSize = 6
  Names = {"aa"}
  NameLen <- SameLength
  Commands <- LargeFile
PROPERTIES
  DoesWhatItSays
VIEW ReadableState
